---- MODULE Spec2Model ----
(***************************************************************************)
(* A state-machine model of the world generator of src/terrain_generator.rs *)
(* (TerrainGenerator::generate and the stages it calls).                    *)
(*                                                                          *)
(* Conventions.                                                             *)
(*  - Cell coordinates are 0-based as in the source; terrain[y][x].         *)
(*  - f64 elevation / moisture / temperature are fixed-point integers in    *)
(*    units of 1/Unit (0.15 is 1500).                                       *)
(*  - f32 settings (densities, land percentage) are in thousandths.         *)
(*  - Every rng call is a nondeterministic choice (\E) over a small set of  *)
(*    values of the call's range.                                           *)
(*  - The Perlin noise library is not part of the repository: the values it *)
(*    contributes (continent value + coastline, moisture, temperature) are  *)
(*    taken from a small family of fields selected by the seed.             *)
(*  - usize arithmetic that underflows panics in a debug build and wraps in *)
(*    a release build; `build` selects which.                               *)
(***************************************************************************)
EXTENDS Integers, Sequences, FiniteSets, TLC

VARIABLES
    seed,            \* TerrainGenerator seed (selects the noise fields)
    settings,        \* GenerationSettings
    build,           \* "debug" | "release": overflow checks on or off
    width, height,   \* the arguments of generate / fields of TerrainMap
    pc,              \* position in generate
    terrain,         \* Vec<Vec<TerrainPoint>>, terrain[y][x]
    synth,           \* the elevation field as synthesised (before erosion)
    rivers,          \* Vec<Vec<(usize, usize)>>
    num_rivers,      \* candidates of generate_rivers still to be attempted
    last_river,      \* the walk of the last candidate, and whether it was kept
    cities,          \* Vec<City>
    cityp,           \* locals of generate_cities
    roads,           \* Vec<Road>
    bridges,         \* all_bridges
    roadp,           \* locals of generate_roads
    search,          \* locals of find_path / find_partial_path
    labels,          \* Vec<PlaceLabel>
    map,             \* the TerrainMap generate returns
    twin,            \* per phase-2 road, the cell a second generator of the same seed connects to
    probe            \* arguments and result of a function applied on its own

vars == << seed, settings, build, width, height, pc, terrain, synth, rivers,
           num_rivers, last_river, cities, cityp, roads, bridges, roadp, search, labels, map, twin,
           probe >>

----------------------------------------------------------------------------
(* Bounds of the model *)

MaxDim == 7
MaxSeed == 2

(* Fixed-point unit of the f64 fields *)
Unit == 10000

Abs(n) == IF n < 0 THEN 0 - n ELSE n
Min(a, b) == IF a < b THEN a ELSE b
Max(a, b) == IF a > b THEN a ELSE b
\* division rounding toward zero, as an `as usize` / float product would give
DivT(a, b) == IF a >= 0 THEN a \div b ELSE 0 - ((0 - a) \div b)

Biomes == { "DeepOcean", "Ocean", "Shore", "Beach", "Plains", "Forest", "Hills",
            "Mountains", "SnowPeaks", "River", "Lake", "Swamp", "Desert" }

DefaultSettings == [ river_density |-> 500, city_density |-> 500, land_percentage |-> 400 ]

----------------------------------------------------------------------------
(* Terrain synthesis *)

\* The "rim valley" field: a valley runs clockwise along the border of the
\* map from (0, 0), and the interior is a high plateau.  RimIndex is the
\* position of a border cell along the valley, -1 elsewhere; the border cell
\* (0, 1), which would close the ring, belongs to the plateau.
RimIndex(x, y, w, h) ==
    IF y = 0 THEN x
    ELSE IF x = w - 1 THEN (w - 1) + y
    ELSE IF y = h - 1 THEN (w - 1) + (h - 1) + (w - 1 - x)
    ELSE IF x = 0 /\ y > 1 THEN 2 * (w - 1) + (h - 1) + (h - 1 - y)
    ELSE 0 - 1

\* The "ramp" field, a profile along x that is the same in every row: behind
\* a high plateau, a descent into the sea, a ridge, a basin whose floor lies
\* below the lake-forming threshold, and a basin whose floor lies above it.
RampProfile ==
    << 9400, 9400, 9400, 9400, 9400, 9400,
       8600, 7900, 7200, 6500, 5800, 5100, 4400, 3700, 3000, 2300, 1600, 900, 200,
       200, 200, 9400,
       8000, 7300, 6600, 5900, 5200, 4500, 3800, 3100, 2400, 9400,
       8500, 7900, 7300, 6700, 6100, 5500, 4900, 4300, 3700, 3100, 9400 >>

\* The "slope" field: behind the same plateau, one long gentle descent.
SlopeProfile(x) == IF x < 6 THEN 9400 ELSE Max(8600 - 33 * (x - 6), 1000)

\* continent_value + coastline of generate_elevation, as the noise sources of
\* seed s produce it at cell (x, y) of a w x h map: open sea (s % 7 = 0); two
\* islets in shallow water (1): a beach at (2, 2) with a plain east and a hill
\* south of it, and a wooded rock at (4, 4), with the shoal (3, 3) between
\* them; the rim valley (2); the ramp (3); the slope (4); the river mouth (5):
\* from a spring at (3, 0) a valley between two low banks of wood and swamp
\* falls down column 3 into the sea at (3, 10), with a beach on either side of
\* the mouth; the tilted plane (6): every row lies lower than the one before
\* it, level but for a furrow in the middle column on the odd rows.
BaseElevation(s, x, y, w, h) ==
    CASE s % 7 = 0 -> 0 - 6000 + 500 * ((x + y) % 3)
      [] s % 7 = 1 -> IF x = 2 /\ y = 2 THEN 1000
                      ELSE IF (x = 3 /\ y = 2) \/ (x = 4 /\ y = 4) THEN 1800
                      ELSE IF x = 2 /\ y = 3 THEN 4000
                      ELSE IF x = 3 /\ y = 3 THEN 0 - 300
                      ELSE 0 - 3000
      [] s % 7 = 2 -> IF RimIndex(x, y, w, h) < 0 THEN 9500
                      ELSE 8000 - 600 * RimIndex(x, y, w, h)
      [] s % 7 = 3 -> IF x < Len(RampProfile) THEN RampProfile[x + 1] ELSE 9400
      [] s % 7 = 4 -> SlopeProfile(x)
      [] s % 7 = 6 -> 8600 - 800 * y - (IF x = 1 /\ y % 2 = 1 THEN 50 ELSE 0)
      [] OTHER     -> IF x = 3 /\ y = 0 THEN 8160
                      ELSE IF x = 3 /\ y < 10 THEN 2088 - 92 * (y - 1)
                      ELSE IF x \in { 2, 4 } /\ y < 10 THEN 2134
                      ELSE IF x \in { 2, 4 } /\ y = 10 THEN 900
                      ELSE 0 - 3000

\* moisture_noise.get(..) * 0.5 + 0.5
MoistureNoise(s, x, y) ==
    CASE (x + 2 * y + s) % 4 = 0 -> 4000
      [] (x + 2 * y + s) % 4 = 1 -> 6000
      [] (x + 2 * y + s) % 4 = 2 -> 2000
      [] OTHER                   -> 9000

\* temperature_noise.get(..) * 0.5 + 0.5
TemperatureNoise(s, x, y) == IF (x + y + s) % 2 = 0 THEN 9000 ELSE 4000

\* the tail of generate_elevation: sea level and the land / water rescaling
SeaLevel(land) == 0 - 1000 + (1000 - land) * 3

generate_elevation(s, land, x, y, w, h) ==
    LET base_elevation == BaseElevation(s, x, y, w, h)
        sea_level      == SeaLevel(land)
    IN  IF base_elevation > sea_level
        THEN Max(Min(DivT((base_elevation - sea_level) * Unit, Unit - sea_level), Unit), 100)
        ELSE Max(DivT((base_elevation - sea_level) * Unit, Unit + sea_level), 0 - Unit)

generate_moisture(s, x, y) == Max(0, Min(Unit, MoistureNoise(s, x, y)))

generate_temperature(s, x, y, h, elevation) ==
    LET base_temp        == TemperatureNoise(s, x, y)
        latitude_factor  == Abs(DivT(2 * Unit * y, h) - Unit)
        elevation_factor == DivT(elevation + Unit, 2)
        t1 == DivT(base_temp * (Unit - DivT(latitude_factor * 3, 10)), Unit)
        t2 == DivT(t1 * (Unit - DivT(elevation_factor * 4, 10)), Unit)
    IN  Max(0, Min(Unit, t2))

\* fault: the second lowland band runs up to 0.3
determine_biome_late_hills(elevation, moisture, temperature) ==
    IF elevation < 0 - 4000 THEN "DeepOcean"
    ELSE IF elevation < 0 - 1500 THEN "Ocean"
    ELSE IF elevation < 0 - 500 THEN "Shore"
    ELSE IF elevation < 500 THEN "Beach"
    ELSE IF elevation < 1500 THEN
        IF moisture > 8500 THEN "Swamp"
        ELSE IF moisture > 5500 THEN "Forest"
        ELSE IF moisture < 2500 /\ temperature > 7000 THEN "Desert"
        ELSE "Plains"
    ELSE IF elevation < 3000 THEN
        IF moisture > 8000 /\ temperature < 5000 THEN "Swamp"
        ELSE IF moisture > 5000 THEN "Forest"
        ELSE IF moisture < 3000 /\ temperature > 6000 THEN "Desert"
        ELSE "Plains"
    ELSE IF elevation < 5000 THEN "Hills"
    ELSE IF elevation < 7500 THEN "Mountains"
    ELSE "SnowPeaks"

determine_biome(elevation, moisture, temperature) ==
    IF elevation < 0 - 4000 THEN "DeepOcean"
    ELSE IF elevation < 0 - 1500 THEN "Ocean"
    ELSE IF elevation < 0 - 500 THEN "Shore"
    ELSE IF elevation < 500 THEN "Beach"
    ELSE IF elevation < 1500 THEN
        IF moisture > 8500 THEN "Swamp"
        ELSE IF moisture > 5500 THEN "Forest"
        ELSE IF moisture < 2500 /\ temperature > 7000 THEN "Desert"
        ELSE "Plains"
    ELSE IF elevation < 2500 THEN
        IF moisture > 8000 /\ temperature < 5000 THEN "Swamp"
        ELSE IF moisture > 5000 THEN "Forest"
        ELSE IF moisture < 3000 /\ temperature > 6000 THEN "Desert"
        ELSE "Plains"
    ELSE IF elevation < 5000 THEN "Hills"
    ELSE IF elevation < 7500 THEN "Mountains"
    ELSE "SnowPeaks"

\* the TerrainPoint generate stores at (x, y)
TerrainPointAt(s, land, x, y, w, h) ==
    LET elevation   == generate_elevation(s, land, x, y, w, h)
        moisture    == generate_moisture(s, x, y)
        temperature == generate_temperature(s, x, y, h, elevation)
    IN  [ elevation |-> elevation, moisture |-> moisture, temperature |-> temperature,
          biome |-> determine_biome(elevation, moisture, temperature) ]

\* fault: the synthesis loop with width and height exchanged
SynthesizedTransposed(s, land, w, h) ==
    [ y \in 0 .. w - 1 |-> [ x \in 0 .. h - 1 |-> TerrainPointAt(s, land, x, y, h, w) ] ]

\* the grid after the synthesis loop of generate: h rows of w cells
SynthesizedTerrain(s, land, w, h) ==
    [ y \in 0 .. h - 1 |-> [ x \in 0 .. w - 1 |-> TerrainPointAt(s, land, x, y, w, h) ] ]

Rows(t) == Cardinality(DOMAIN t)
Cols(t) == Cardinality(DOMAIN t[0])
InBounds(t, x, y) == y \in DOMAIN t /\ x \in DOMAIN t[y]

Cell(t, x, y) == t[y][x]

----------------------------------------------------------------------------
(* generate_rivers *)

\* (dx, dy) of the eight neighbours in the scan order `for dy { for dx }`
Neighbors8 == << <<0 - 1, 0 - 1>>, <<0, 0 - 1>>, <<1, 0 - 1>>,
                 <<0 - 1, 0>>,                   <<1, 0>>,
                 <<0 - 1, 1>>,     <<0, 1>>,     <<1, 1>> >>

\* fault: the generator reads the default settings, not the ones it was built with
default_city_density(st) == DefaultSettings.city_density

\* self.settings.river_density and self.settings.city_density, in thousandths
river_density(st) == st.river_density
city_density(st) == st.city_density

\* fault: no early return, and a range that always allows one candidate
NumRiversAtLeastOne(density) ==
    LET min_rivers == (density * 20) \div 1000
        max_rivers == (density * 50) \div 1000
    IN  min_rivers .. Max(max_rivers, 1)

\* number of candidate rivers: the values gen_range(min_rivers..=max_rivers) can return
NumRiversChoices(density) ==
    LET min_rivers == (density * 20) \div 1000
        max_rivers == (density * 50) \div 1000
    IN  IF density < 10 THEN {0} ELSE min_rivers .. max_rivers

\* a start cell the bounded retry (200 draws) can find
IsRiverStart(t, x, y) == Cell(t, x, y).elevation > 1500 /\ Cell(t, x, y).elevation < 8500

\* fault: the scan that keeps the last of the lowest neighbours
\* (`<=` against the lowest found, `<` against the current cell)
RECURSIVE ScanLowestLast(_, _, _, _, _, _)
ScanLowestLast(t, visited, x, y, k, best) ==
    IF k > Len(Neighbors8) THEN best
    ELSE LET nx == x + Neighbors8[k][1]
             ny == y + Neighbors8[k][2]
         IN  IF InBounds(t, nx, ny) /\ <<nx, ny>> \notin visited
                /\ Cell(t, nx, ny).elevation < Cell(t, x, y).elevation
                /\ Cell(t, nx, ny).elevation <= best[1]
             THEN ScanLowestLast(t, visited, x, y, k + 1, << Cell(t, nx, ny).elevation, nx, ny >>)
             ELSE ScanLowestLast(t, visited, x, y, k + 1, best)

\* the "find lowest neighbor" scan from neighbour k on; best = <<lowest_elevation, next_x, next_y>>
RECURSIVE ScanLowest(_, _, _, _, _, _)
ScanLowest(t, visited, x, y, k, best) ==
    IF k > Len(Neighbors8) THEN best
    ELSE LET nx == x + Neighbors8[k][1]
             ny == y + Neighbors8[k][2]
         IN  IF InBounds(t, nx, ny) /\ <<nx, ny>> \notin visited
                /\ Cell(t, nx, ny).elevation < best[1]
             THEN ScanLowest(t, visited, x, y, k + 1, << Cell(t, nx, ny).elevation, nx, ny >>)
             ELSE ScanLowest(t, visited, x, y, k + 1, best)

\* `if river.len() > 10` of a walk that reached the sea
\* fault: `>=` for `>` in the length test at the sea
CommitsAtSeaFrom10(river) == Len(river) >= 10

CommitsAtSea(river) == Len(river) > 10

\* `if river.len() > 8 && current_elevation < 0.2` of a walk with no lower neighbour
CommitsAtPool(river, current_elevation) == Len(river) > 8 /\ current_elevation < 2000

\* at most n iterations of the "flow downhill" loop, from the one that pushes
\* (x, y): the cells pushed so far and how the loop ended ("sea", "pool"), or
\* "flowing" with the cell the next iteration pushes
RECURSIVE Flow(_, _, _, _, _)
Flow(t, river, x, y, n) ==
    IF n = 0 THEN [ cells |-> river, ending |-> "flowing", x |-> x, y |-> y ]
    ELSE LET r       == Append(river, <<x, y>>)
             visited == { r[i] : i \in 1 .. Len(r) }
             current_elevation == Cell(t, x, y).elevation
             best    == ScanLowest(t, visited, x, y, 1, << current_elevation, x, y >>)
         IN  IF current_elevation < 0 - 500 THEN [ cells |-> r, ending |-> "sea", x |-> x, y |-> y ]
             ELSE IF best[2] = x /\ best[3] = y THEN [ cells |-> r, ending |-> "pool", x |-> x, y |-> y ]
             ELSE Flow(t, r, best[2], best[3], n - 1)

\* `for _ in 0..200`, taken 20 iterations at a time: the cells pushed when the
\* loop ends, and how it ends ("sea", "pool", or "cap" when the 200
\* iterations are used up)
RECURSIVE Walk(_, _, _, _)
Walk(t, river, x, y) ==
    IF Len(river) >= 200 THEN [ cells |-> river, ending |-> "cap" ]
    ELSE LET part == Flow(t, river, x, y, 20)
         IN  IF part.ending = "flowing" THEN Walk(t, part.cells, part.x, part.y)
             ELSE [ cells |-> part.cells, ending |-> part.ending ]

\* TRUE when the walk w is pushed to `rivers`
Committed(t, w) ==
    LET last == w.cells[Len(w.cells)]
    IN  CASE w.ending = "sea"  -> CommitsAtSea(w.cells)
          [] w.ending = "pool" -> CommitsAtPool(w.cells, Cell(t, last[1], last[2]).elevation)
          [] OTHER             -> FALSE

\* the candidate of one pass of the river loop started at (x, y)
Candidate(t, x, y) ==
    LET w == Walk(t, << >>, x, y)
    IN  [ cells |-> w.cells, ending |-> w.ending, committed |-> Committed(t, w) ]

NoRiver == [ cells |-> << >>, ending |-> "none", committed |-> FALSE ]

----------------------------------------------------------------------------
(* river erosion in generate *)

\* fault: `-=` for `*=` in the widening of a river
WidenBySubtraction(t, nx, ny) ==
    IF InBounds(t, nx, ny) /\ Cell(t, nx, ny).elevation > 0 - 1000
    THEN [ t EXCEPT ![ny][nx].elevation = @ - 9500 ]
    ELSE t

\* `terrain[ny][nx].elevation *= 0.95` of a neighbour on the map above -0.1
Widen(t, nx, ny) ==
    IF InBounds(t, nx, ny) /\ Cell(t, nx, ny).elevation > 0 - 1000
    THEN [ t EXCEPT ![ny][nx].elevation = DivT(@ * 95, 100) ]
    ELSE t

\* the body of `if x < width && y < height` for one river cell: biome River,
\* elevation * 0.9, then * 0.95 on the cell and its orthogonal neighbours, in
\* the order of the `dy`, `dx` loops
ErodeCell(t, x, y) ==
    LET carved == [ t EXCEPT ![y][x].biome = "River",
                             ![y][x].elevation = DivT(@ * 9, 10) ]
    IN  Widen(Widen(Widen(Widen(Widen(carved, x, y - 1), x - 1, y), x, y), x + 1, y), x, y + 1)

\* `for &(x, y) in river`, cells lo .. hi in order
RECURSIVE ErodeSpan(_, _, _, _)
ErodeSpan(t, river, lo, hi) ==
    IF lo > hi THEN t
    ELSE IF InBounds(t, river[lo][1], river[lo][2])
    THEN ErodeSpan(ErodeCell(t, river[lo][1], river[lo][2]), river, lo + 1, hi)
    ELSE ErodeSpan(t, river, lo + 1, hi)

\* the same loop from cell lo on, taken 20 cells at a time
RECURSIVE ErodeRiver(_, _, _)
ErodeRiver(t, river, lo) ==
    IF lo > Len(river) THEN t
    ELSE ErodeRiver(ErodeSpan(t, river, lo, Min(lo + 19, Len(river))), river, lo + 20)

RECURSIVE ErodeAll(_, _, _)
ErodeAll(t, rs, k) ==
    IF k > Len(rs) THEN t ELSE ErodeAll(ErodeRiver(t, rs[k], 1), rs, k + 1)

----------------------------------------------------------------------------
(* generate_cities *)

WaterBiomes == { "Ocean", "DeepOcean", "Lake", "Shore" }

\* fault: a margin of three, `2..terrain.len()-3`, which underflows on two rows
CityScanMargin3(w, h, b) ==
    IF h < 3 \/ w < 3 THEN (IF b = "debug" THEN "panic" ELSE "hang") ELSE "ok"

\* how the scan `for y in 2..terrain.len()-2 { for x in 2..terrain[0].len()-2 {`
\* ends on a w x h grid: "ok", "panic" (overflow check, or an index past the
\* grid once the bound has wrapped) or "hang" (a wrapped outer bound over
\* empty inner ranges)
CityScanOutcome(w, h, b) ==
    IF h < 2
    THEN IF b = "debug" THEN "panic"
         ELSE IF h = 0 \/ w < 2 \/ w >= 5 THEN "panic" ELSE "hang"
    ELSE IF h < 5 THEN "ok"
    ELSE IF w < 2 THEN "panic"
    ELSE "ok"

\* fault: Shore among the biomes matched, and no water test of the cell itself
IsValidWithShore(t, x, y) ==
    Cell(t, x, y).biome \in { "Plains", "Hills", "Forest", "Desert", "Beach", "Shore" }

\* a cell the scan pushes to valid_positions
IsValidPosition(t, x, y) ==
    /\ Cell(t, x, y).biome \in { "Plains", "Hills", "Forest", "Desert", "Beach" }
    /\ Cell(t, x, y).biome \notin WaterBiomes

\* valid_positions, in scan order (rows 2..h-3, columns 2..w-3)
ValidPositions(t, w, h) ==
    IF h < 5 \/ w < 5 THEN << >>
    ELSE LET n == (w - 4) * (h - 4)
             interior == [ k \in 1 .. n |-> << 2 + ((k - 1) % (w - 4)), 2 + ((k - 1) \div (w - 4)) >> ]
             Keep(c) == IsValidPosition(t, c[1], c[2])
         IN  SelectSeq(interior, Keep)

\* the three tier counts; density and land factor are f32, here exact rationals
NumMajorCities(density, nvalid, total) ==
    IF density < 100 THEN 0 ELSE Min(((density - 100) * 10 * nvalid * 2) \div (1000 * total), 10)

NumMediumCities(density, nvalid, total) ==
    IF density < 50 THEN 0 ELSE Min(((density - 50) * 25 * nvalid * 2) \div (1000 * total), 25)

\* fault: the cap of the towns forgotten
NumTownsUncapped(density, nvalid, total) == (density * 70 * nvalid * 2) \div (1000 * total)

NumTowns(density, nvalid, total) == Min((density * 70 * nvalid * 2) \div (1000 * total), 70)

\* values of rng.gen_range(50000..150000) and rng.gen_range(5000..30000)
MediumPopulations == { 50000, 149999 }
TownPopulations == { 5000, 29999 }

\* fault: the major of rank r gets the population of rank r + 1
PopulationsFromRankTwo(nmajor, mediums, towns) ==
    [ i \in 1 .. nmajor |-> 500000 \div (i + 1) ] \o mediums \o towns

\* the populations vector for given draws
Populations(nmajor, mediums, towns) ==
    [ i \in 1 .. nmajor |-> 500000 \div i ] \o mediums \o towns

\* outcomes of `suitable`: Beach/Shore, Hills and Forest draw gen_bool
SuitableOutcomes(biome, is_major) ==
    CASE biome = "Plains" -> { TRUE }
      [] biome \in { "Beach", "Shore" } -> IF is_major THEN { TRUE } ELSE { TRUE, FALSE }
      [] biome \in { "Hills", "Forest" } -> { TRUE, FALSE }
      [] OTHER -> { FALSE }

TierMinDist(is_major, is_medium) == IF is_major THEN 100 ELSE IF is_medium THEN 60 ELSE 40

\* The loop over placed_positions from entry i (1-based) with the current
\* min_dist: the set of <<too_close, grid_aligned>> it can end with (the
\* suburb rule draws gen_bool(0.3)).  Distances are compared squared.
RECURSIVE SpacingOutcomes(_, _, _, _, _, _, _)
SpacingOutcomes(x, y, placed, i, min_dist, is_town, num_major) ==
    IF i > Len(placed) THEN { << FALSE, FALSE >> }
    ELSE LET dx == x - placed[i][1]
             dy == y - placed[i][2]
             d2 == dx * dx + dy * dy
             After(md) == IF d2 < md * md THEN { << TRUE, FALSE >> }
                          ELSE SpacingOutcomes(x, y, placed, i + 1, md, is_town, num_major)
         IN  IF (Abs(dx) < 3 \/ Abs(dy) < 3) /\ d2 < 40 * 40 THEN { << FALSE, TRUE >> }
             ELSE IF is_town /\ i - 1 < num_major
                  THEN IF d2 < 6 * 6 THEN { << TRUE, FALSE >> }
                       ELSE IF d2 < 12 * 12 THEN After(8) \cup After(min_dist)
                       ELSE After(min_dist)
                  ELSE After(min_dist)

NoCityLocals == [ valid_positions |-> << >>, populations |-> << >>, num_major_cities |-> 0,
                  num_medium_cities |-> 0, idx |-> 0, attempts |-> 0, placed_positions |-> << >> ]

----------------------------------------------------------------------------
(* find_path / find_partial_path *)

Dist2(ax, ay, bx, by) == (ax - bx) * (ax - bx) + (ay - by) * (ay - by)

\* the largest k in lo .. hi with k * k <= n
RECURSIVE SqrtSearch(_, _, _)
SqrtSearch(n, lo, hi) ==
    IF lo >= hi THEN lo
    ELSE LET mid == (lo + hi + 1) \div 2
         IN  IF mid * mid <= n THEN SqrtSearch(n, mid, hi) ELSE SqrtSearch(n, lo, mid - 1)

\* floor of the square root
ISqrt(n) == SqrtSearch(n, 0, 46340)

\* fault: Shore left out of the biomes a search may not step onto
ImpassableDeep(biome) == biome \in { "Ocean", "DeepOcean", "Lake" }

\* biomes neither search steps onto
Impassable(biome) == biome \in { "Ocean", "DeepOcean", "Lake", "Shore" }

\* the draws of `gen_range(5..35)` and `gen_range(50..100)` in find_path
JitterDraws == { 5, 34 }
StraightDraws == { 50, 99 }

\* fault: the path read back without the cell that has no came_from entry
RECURSIVE PathToOpen(_, _)
PathToOpen(came_from, pos) ==
    IF pos \notin DOMAIN came_from THEN << >>
    ELSE Append(PathToOpen(came_from, came_from[pos]), pos)

\* the path read back along came_from, start first
RECURSIVE PathTo(_, _)
PathTo(came_from, pos) ==
    IF pos \notin DOMAIN came_from THEN << pos >>
    ELSE Append(PathTo(came_from, came_from[pos]), pos)

\* consecutive earlier moves in the exact direction (dx, dy)
RECURSIVE StraightCount(_, _, _, _)
StraightCount(came_from, pos, dx, dy) ==
    IF pos \notin DOMAIN came_from THEN 0
    ELSE LET prev == came_from[pos]
         IN  IF pos[1] - prev[1] = dx /\ pos[2] - prev[2] = dy
             THEN 1 + StraightCount(came_from, prev, dx, dy)
             ELSE 0

IsRightAngle(prev_dx, prev_dy, dx, dy) ==
    \/ (prev_dx # 0 /\ prev_dy # 0) /\ (dx = 0 \/ dy = 0)
    \/ prev_dx # 0 /\ prev_dy = 0 /\ dx = 0 /\ dy # 0
    \/ prev_dx = 0 /\ prev_dy # 0 /\ dx # 0 /\ dy = 0

\* TRUE when the move (dx, dy) out of pos draws `gen_range(50..100)`
DrawsStraight(came_from, pos, dx, dy) ==
    /\ Abs(dx) + Abs(dy) # 2
    /\ pos \in DOMAIN came_from
    /\ ~IsRightAngle(pos[1] - came_from[pos][1], pos[2] - came_from[pos][2], dx, dy)

TerrainFactor(biome, move_cost) ==
    CASE biome = "River"     -> move_cost * 5
      [] biome = "Mountains" -> move_cost * 8
      [] biome = "SnowPeaks" -> move_cost * 10
      [] biome = "Hills"     -> move_cost * 2
      [] biome = "Swamp"     -> move_cost * 3
      [] biome = "Forest"    -> (move_cost * 3) \div 2
      [] OTHER               -> move_cost

\* next.cost of find_path for the move (dx, dy) out of pos, popped at `cost`
NextCost(t, came_from, cost, pos, dx, dy, goal, jitter, straight) ==
    LET nx == pos[1] + dx
        ny == pos[2] + dy
        is_diagonal == Abs(dx) + Abs(dy) = 2
        elevation_change == Abs(Cell(t, nx, ny).elevation - Cell(t, pos[1], pos[2]).elevation)
        m1 == (IF is_diagonal THEN 14 ELSE 10) + (elevation_change * 100) \div Unit
        m2 == TerrainFactor(Cell(t, nx, ny).biome, m1) + jitter
        has_prev == pos \in DOMAIN came_from
        prev_dx == IF has_prev THEN pos[1] - came_from[pos][1] ELSE 0
        prev_dy == IF has_prev THEN pos[2] - came_from[pos][2] ELSE 0
        straight_count == StraightCount(came_from, pos, dx, dy)
        m3 == IF ~is_diagonal
              THEN IF has_prev
                   THEN IF IsRightAngle(prev_dx, prev_dy, dx, dy)
                        THEN m2 + 1000
                        ELSE m2 + straight_count * straight_count * 50
                                + 200 + straight
                                + (IF (dx = 0 /\ prev_dx = 0) \/ (dy = 0 /\ prev_dy = 0)
                                   THEN 300 ELSE 0)
                   ELSE m2 + 150
              ELSE IF has_prev /\ prev_dx # 0 /\ prev_dy # 0
                      /\ Abs(dx - prev_dx) + Abs(dy - prev_dy) <= 1
                   THEN ((m2 * 3) \div 10) \div 2
                   ELSE (m2 * 3) \div 10
        m4 == IF elevation_change < 500 THEN (m3 * 85) \div 100 ELSE m3
        heuristic == ISqrt(144 * Dist2(nx, ny, goal[1], goal[2]))
    IN  cost + m4 + heuristic \div 4

\* next.cost of find_partial_path
NextCostPartial(t, cost, pos, dx, dy) ==
    LET nx == pos[1] + dx
        ny == pos[2] + dy
        elevation_change == Abs(Cell(t, nx, ny).elevation - Cell(t, pos[1], pos[2]).elevation)
    IN  cost + (IF Abs(dx) + Abs(dy) = 2 THEN 14 ELSE 10) + (elevation_change * 50) \div Unit

\* the neighbour moves (indices into Neighbors8) both searches consider at pos
OpenMoves(t, pos) ==
    { k \in 1 .. 8 :
        /\ InBounds(t, pos[1] + Neighbors8[k][1], pos[2] + Neighbors8[k][2])
        /\ ~Impassable(Cell(t, pos[1] + Neighbors8[k][1], pos[2] + Neighbors8[k][2]).biome) }

\* dist.get(p).unwrap_or(usize::MAX) < c is never true; c < it always is
Improves(dist, p, c) == p \notin DOMAIN dist \/ c < dist[p]

\* the neighbour loop: costs[k] is next.cost of move k
Relax(s, pos, moves, costs) ==
    LET better == { k \in moves :
                      Improves(s.dist, << pos[1] + Neighbors8[k][1], pos[2] + Neighbors8[k][2] >>,
                               costs[k]) }
        cellOf(k) == << pos[1] + Neighbors8[k][1], pos[2] + Neighbors8[k][2] >>
        cells == { cellOf(k) : k \in better }
        moveTo(c) == CHOOSE k \in better : cellOf(k) = c
    IN  [ s EXCEPT
            !.heap = @ \cup { << costs[k], cellOf(k) >> : k \in better },
            !.dist = [ c \in cells |-> costs[moveTo(c)] ] @@ @,
            !.came_from = [ c \in cells |-> pos ] @@ @ ]

NewSearch(partial, x1, y1, x2, y2) ==
    [ active |-> TRUE, partial |-> partial, goal |-> << x2, y2 >>,
      dist |-> ( << x1, y1 >> :> 0 ), heap |-> { << 0, << x1, y1 >> >> },
      came_from |-> << >>, steps |-> 0, done |-> FALSE, result |-> << >> ]

----------------------------------------------------------------------------
(* smooth_path.  f32 coordinates are fixed-point integers in thousandths. *)

\* `.round()` of a value in thousandths (half away from zero)
RoundMilli(m) == IF m >= 0 THEN (m + 500) \div 1000 ELSE 0 - ((500 - m) \div 1000)

\* `.round() as usize`: the cast saturates at 0
RoundToUsize(m) == Max(0, RoundMilli(m))

\* the first pass checks a curve point against these (Shore is not among them)
SmoothWater(biome) == biome \in { "Ocean", "DeepOcean", "Lake" }

\* curve_radius / dist1 in thousandths, for segments of squared lengths own, other
CurveT(own, other) == IF own <= other THEN 400 ELSE (400 * ISqrt((other * 1000000) \div own)) \div 1000

\* the direction change that is smoothed at a corner
NeedsSmoothing(v1x, v1y, v2x, v2y) ==
    LET dot == v1x * v2x + v1y * v2y
        l1  == v1x * v1x + v1y * v1y
        l2  == v2x * v2x + v2y * v2y
    IN  \/ l1 = 0
        \/ l2 = 0
        \/ dot <= 0
        \/ 4 * dot * dot < l1 * l2

\* the point of the cubic Bezier curve at t = j / 8, rounded to a cell
BezierCell(p1, c, p2, j) ==
    LET a == (8 - j) * (8 - j) * (8 - j)
        b == 3 * (8 - j) * (8 - j) * j + 3 * (8 - j) * j * j
        d == j * j * j
        px512 == a * p1[1] + b * c[1] * 1000 + d * p2[1]
        py512 == a * p1[2] + b * c[2] * 1000 + d * p2[2]
    IN  << RoundToUsize(DivT(px512, 512)), RoundToUsize(DivT(py512, 512)) >>

\* what the first pass pushes for the interior point curr
CornerPoints(t, prev, curr, next) ==
    LET v1x == curr[1] - prev[1]
        v1y == curr[2] - prev[2]
        v2x == next[1] - curr[1]
        v2y == next[2] - curr[2]
        l1  == v1x * v1x + v1y * v1y
        l2  == v2x * v2x + v2y * v2y
        p1  == << curr[1] * 1000 - v1x * CurveT(l1, l2), curr[2] * 1000 - v1y * CurveT(l1, l2) >>
        p2  == << curr[1] * 1000 + v2x * CurveT(l2, l1), curr[2] * 1000 + v2y * CurveT(l2, l1) >>
        \* a zero-length segment makes t1 or t2 NaN, every px, py NaN, and
        \* `NaN.round().max(0.0) as usize` is 0
        curve == IF l1 = 0 \/ l2 = 0
                 THEN [ j \in 1 .. 9 |-> << 0, 0 >> ]
                 ELSE [ j \in 1 .. 9 |-> BezierCell(p1, curr, p2, j - 1) ]
        keep(c) == InBounds(t, c[1], c[2]) /\ ~SmoothWater(Cell(t, c[1], c[2]).biome)
    IN  IF NeedsSmoothing(v1x, v1y, v2x, v2y) THEN SelectSeq(curve, keep) ELSE << curr >>

RECURSIVE SplineFrom(_, _, _)
SplineFrom(t, path, i) ==
    IF i > Len(path) - 1 THEN << >>
    ELSE CornerPoints(t, path[i - 1], path[i], path[i + 1]) \o SplineFrom(t, path, i + 1)

\* `splined` of a path of at least three points
Splined(t, path) == << path[1] >> \o SplineFrom(t, path, 2) \o << path[Len(path)] >>

\* num_points of the segment from a to b, 0 when it is not longer than 1.5
NumPoints(a, b) ==
    LET d2 == Dist2(a[1], a[2], b[1], b[2])
    IN  IF d2 >= 3 THEN ISqrt(64 * d2) \div 10 ELSE 0

\* the (segment, point) pairs of the second pass that draw a wiggle
WigglePoints(splined) ==
    UNION { { << i, j >> : j \in 1 .. NumPoints(splined[i], splined[i + 1]) } :
            i \in 1 .. Len(splined) - 1 }

\* << total_wiggle, jitter of x, jitter of y >> in thousandths
WiggleDraws == { 0 - 1500, 0, 1500 } \X { 0 - 100, 99 } \X { 0 - 100, 99 }

\* what the second pass pushes for point j of the segment from a to b
WigglePoint(t, a, b, j, draw) ==
    LET dx     == b[1] - a[1]
        dy     == b[2] - a[2]
        n      == NumPoints(a, b)
        distm  == ISqrt(Dist2(a[1], a[2], b[1], b[2]) * 1000000)
        base_x == a[1] * 1000 + DivT(dx * 1000 * j, n + 1)
        base_y == a[2] * 1000 + DivT(dy * 1000 * j, n + 1)
        wiggle_x == base_x + DivT((0 - dy) * draw[1] * 1000, distm)
        wiggle_y == base_y + DivT(dx * draw[1] * 1000, distm)
        final_x == RoundToUsize(wiggle_x + draw[2])
        final_y == RoundToUsize(wiggle_y + draw[3])
    IN  IF InBounds(t, final_x, final_y)
        THEN IF ~SmoothWater(Cell(t, final_x, final_y).biome)
             THEN << << final_x, final_y >> >>
             ELSE << << RoundToUsize(base_x), RoundToUsize(base_y) >> >>
        ELSE << >>

RECURSIVE WiggleSegment(_, _, _, _, _)
WiggleSegment(t, splined, i, j, wig) ==
    IF j > NumPoints(splined[i], splined[i + 1]) THEN << >>
    ELSE WigglePoint(t, splined[i], splined[i + 1], j, wig[<< i, j >>])
         \o WiggleSegment(t, splined, i, j + 1, wig)

RECURSIVE WiggleFrom(_, _, _, _)
WiggleFrom(t, splined, i, wig) ==
    IF i > Len(splined) - 1 THEN << >>
    ELSE WiggleSegment(t, splined, i, 1, wig) \o << splined[i + 1] >>
         \o WiggleFrom(t, splined, i + 1, wig)

\* fault: the last pass left out
DedupeNone(points) == points

\* the removal of duplicate consecutive points
RECURSIVE Dedupe(_)
Dedupe(points) ==
    IF Len(points) < 2 THEN points
    ELSE LET front == Dedupe(SubSeq(points, 1, Len(points) - 1))
         IN  IF points[Len(points)] = front[Len(front)] THEN front
             ELSE Append(front, points[Len(points)])

\* smooth_path, with wig the draws of its second pass
smooth_path(t, path, wig) ==
    IF Len(path) < 3 THEN path
    ELSE Dedupe(<< Splined(t, path)[1] >> \o WiggleFrom(t, Splined(t, path), 1, wig))

\* the draws a call of smooth_path makes
WiggleChoices(t, path) ==
    IF Len(path) < 3 THEN { << >> }
    ELSE [ WigglePoints(Splined(t, path)) -> WiggleDraws ]

----------------------------------------------------------------------------
(* generate_roads *)

\* river_points: every cell of every river
RiverPoints(rs) == UNION { { rs[r][i] : i \in DOMAIN rs[r] } : r \in DOMAIN rs }

\* `edges.sort_by(dist)`: the sort is stable, so an edge goes behind its equals
RECURSIVE InsertEdge(_, _)
InsertEdge(sorted, e) ==
    IF sorted = << >> THEN << e >>
    ELSE IF e[1] < sorted[Len(sorted)][1]
         THEN Append(InsertEdge(SubSeq(sorted, 1, Len(sorted) - 1), e), sorted[Len(sorted)])
         ELSE Append(sorted, e)

\* the pairs i < j of the first n cities as << dist^2, i, j >>, sorted by
\* distance; the pairs before (i, j) in push order are already in `sorted`
RECURSIVE SortedEdges(_, _, _, _, _)
SortedEdges(cs, n, i, j, sorted) ==
    IF i >= n THEN sorted
    ELSE IF j > n THEN SortedEdges(cs, n, i + 1, i + 2, sorted)
    ELSE SortedEdges(cs, n, i, j + 1,
                     InsertEdge(sorted, << Dist2(cs[i].x, cs[i].y, cs[j].x, cs[j].y), i, j >>))

RECURSIVE Find(_, _)
Find(uf, x) == IF uf[x] = x THEN x ELSE Find(uf, uf[x])

\* Kruskal over the sorted edges from edge k on; stops at the first edge longer than 80
RECURSIVE Kruskal(_, _, _, _)
Kruskal(edges, k, uf, mst) ==
    IF k > Len(edges) \/ edges[k][1] > 80 * 80 THEN mst
    ELSE LET root_i == Find(uf, edges[k][2])
             root_j == Find(uf, edges[k][3])
         IN  IF root_i # root_j
             THEN Kruskal(edges, k + 1, [ uf EXCEPT ![root_i] = root_j ],
                          Append(mst, << edges[k][2], edges[k][3] >>))
             ELSE Kruskal(edges, k + 1, uf, mst)

\* fault: major_count without the cap of 8
MstEdgesUncapped(cs) ==
    LET major_count == Len(cs)
    IN  IF major_count > 1
        THEN Kruskal(SortedEdges(cs, major_count, 1, 2, << >>), 1,
                     [ i \in 1 .. major_count |-> i ], << >>)
        ELSE << >>

\* mst_edges, as pairs of 1-based city indices
MstEdges(cs) ==
    LET major_count == Min(Len(cs), 8)
    IN  IF major_count > 1
        THEN Kruskal(SortedEdges(cs, major_count, 1, 2, << >>), 1,
                     [ i \in 1 .. major_count |-> i ], << >>)
        ELSE << >>

\* the first index in js, in increasing order, nearest to city i (strict `<`)
NearestCity(cs, i, js) ==
    CHOOSE j \in js :
        \A k \in js :
            LET dj == Dist2(cs[i].x, cs[i].y, cs[j].x, cs[j].y)
                dk == Dist2(cs[i].x, cs[i].y, cs[k].x, cs[k].y)
            IN  dj < dk \/ (dj = dk /\ j <= k)

\* the values best_connection can take for city i, as << x, y, is_road_junction >>.
\* The loop over road_network keeps the first of the nearest keys it meets,
\* and the order in which a HashMap yields its keys is that of its hasher's
\* random state, which is not derived from the seed: any nearest key can be
\* the first.
BestConnections(cs, i, road_network, connected_cities) ==
    LET d2(c)     == Dist2(cs[i].x, cs[i].y, c[1], c[2])
        close     == { c \in road_network : d2(c) < 30 * 30 }
        nearest   == { c \in close : \A o \in close : d2(c) <= d2(o) }
        linked    == { j \in 1 .. Len(cs) : j # i /\ connected_cities[j] }
        others    == { j \in 1 .. Len(cs) : j # i }
    IN  IF close # {} THEN { << c[1], c[2], TRUE >> : c \in nearest }
        ELSE IF linked # {}
             THEN { << cs[NearestCity(cs, i, linked)].x, cs[NearestCity(cs, i, linked)].y, FALSE >> }
        ELSE IF others # {}
             THEN { << cs[NearestCity(cs, i, others)].x, cs[NearestCity(cs, i, others)].y, FALSE >> }
        ELSE { << cs[1].x, cs[1].y, FALSE >> }

\* fault: the Bridge literal with x and y exchanged
BridgesOfExchanged(t, river_points, path) ==
    LET crosses(p) == p \in river_points \/ Cell(t, p[1], p[2]).biome = "River"
        cells == SelectSeq(path, crosses)
    IN  [ k \in 1 .. Len(cells) |-> [ x |-> cells[k][2], y |-> cells[k][1] ] ]

\* the bridges of a path: its cells on a river
BridgesOf(t, river_points, path) ==
    LET crosses(p) == p \in river_points \/ Cell(t, p[1], p[2]).biome = "River"
        cells == SelectSeq(path, crosses)
    IN  [ k \in 1 .. Len(cells) |-> [ x |-> cells[k][1], y |-> cells[k][2] ] ]

\* the targets of a trail out of (cx, cy) that pass the bounds test.  The
\* offset has length 15 to 30, so on a map whose diagonal is shorter than 15 one
\* coordinate of an accepted target left the map on the low side, where the
\* cast to usize saturates at 0.
TrailTargets(t, cx, cy) ==
    { c \in (0 .. Cols(t) - 1) \X (0 .. Rows(t) - 1) : c[1] = 0 \/ c[2] = 0 }

Cells(path) == { path[k] : k \in DOMAIN path }

----------------------------------------------------------------------------
(* generate_labels *)

\* usize::MAX, as the initial min_dist of region_center: above any distance on a map
UsizeMax == 1000000

\* the cells of the map
MapCells(t) == (0 .. Cols(t) - 1) \X (0 .. Rows(t) - 1)

\* at most n iterations of `while let Some((cx, cy)) = stack.pop()` of
\* find_regions on fill = << stack, visited, region >>, the second half of
\* them run on the result of the first half.  A cell pushed again lies above
\* its earlier copies, is popped before them and makes them skipped entries:
\* the stack here drops the earlier copies at the push, and so never holds a
\* visited cell.
FloodSteps(t, biomes, entry, n) ==
    LET Fills == Seq(MapCells(t)) \X (SUBSET MapCells(t)) \X Seq(MapCells(t))
        Run[a \in Fills \X Nat] ==
            IF a[2] = 0 \/ a[1][1] = << >> THEN a[1]
            ELSE IF a[2] > 1 THEN Run[<< Run[<< a[1], a[2] \div 2 >>], a[2] - a[2] \div 2 >>]
            ELSE LET stack   == a[1][1]
                     visited == a[1][2]
                     c       == stack[Len(stack)]
                     open(k) == LET nx == c[1] + Neighbors8[k][1]
                                    ny == c[2] + Neighbors8[k][2]
                                IN  /\ InBounds(t, nx, ny)
                                    /\ << nx, ny >> \notin visited \cup { c }
                                    /\ Cell(t, nx, ny).biome \in biomes
                     around == [ k \in 1 .. 8 |-> << c[1] + Neighbors8[k][1], c[2] + Neighbors8[k][2] >> ]
                     pushed == SelectSeq(around, LAMBDA p : \E k \in 1 .. 8 : around[k] = p /\ open(k))
                     rest   == SelectSeq(SubSeq(stack, 1, Len(stack) - 1), LAMBDA p : p \notin Cells(pushed))
                 IN  << rest \o pushed, visited \cup { c }, Append(a[1][3], c) >>
    IN  Run[<< entry, n >>]

\* the flood fill of find_regions from the cells on the stack: no cell is
\* popped twice, so it ends within as many pops as the map has cells; the
\* result is << visited, region >>
FloodFill(t, biomes, stack, visited, region) ==
    CHOOSE filled \in
      { << fill[2], fill[3] >>
        : fill \in { FloodSteps(t, biomes, << stack, visited, region >>, Rows(t) * Cols(t)) } } : TRUE

\* fault: the scan that keeps the regions of 10 cells too
FindRegionsScanTen(t, biomes, entry) ==
    LET Scan[found \in (SUBSET MapCells(t)) \X Seq(Seq(MapCells(t)))] ==
            LET open == { n \in 0 .. Rows(t) * Cols(t) - 1 :
                            /\ << n % Cols(t), n \div Cols(t) >> \notin found[1]
                            /\ Cell(t, n % Cols(t), n \div Cols(t)).biome \in biomes }
            IN  IF open = {} THEN found
                ELSE Scan[CHOOSE after \in
                            { << filled[1],
                                 IF Len(filled[2]) >= 10 THEN Append(found[2], filled[2])
                                 ELSE found[2] >>
                              : filled \in
                                  { FloodFill(t, biomes,
                                        << << n % Cols(t), n \div Cols(t) >> >>, found[1], << >>)
                                    : n \in { m \in open : \A o \in open : m <= o } } } : TRUE]
    IN  Scan[entry]

\* find_regions: the scan of the cells in row-major order on
\* found = << visited, regions >>, from one cell that starts a flood fill to
\* the next
FindRegionsScan(t, biomes, entry) ==
    LET Scan[found \in (SUBSET MapCells(t)) \X Seq(Seq(MapCells(t)))] ==
            LET open == { n \in 0 .. Rows(t) * Cols(t) - 1 :
                            /\ << n % Cols(t), n \div Cols(t) >> \notin found[1]
                            /\ Cell(t, n % Cols(t), n \div Cols(t)).biome \in biomes }
            IN  IF open = {} THEN found
                ELSE Scan[CHOOSE after \in
                            { << filled[1],
                                 IF Len(filled[2]) > 10 THEN Append(found[2], filled[2])
                                 ELSE found[2] >>
                              : filled \in
                                  { FloodFill(t, biomes,
                                        << << n % Cols(t), n \div Cols(t) >> >>, found[1], << >>)
                                    : n \in { m \in open : \A o \in open : m <= o } } } : TRUE]
    IN  Scan[entry]

find_regions(t, biomes) == FindRegionsScan(t, biomes, << {}, << >> >>)[2]

\* is_edge of region_center: TRUE when the region cell o has a cell outside
\* the region (given as the set of its cells) next to it
IsEdge(cells, o) ==
    \/ << o[1] + 1, o[2] >> \notin cells
    \/ << o[1], o[2] + 1 >> \notin cells
    \/ o[1] > 0 /\ << o[1] - 1, o[2] >> \notin cells
    \/ o[2] > 0 /\ << o[1], o[2] - 1 >> \notin cells

\* min_dist of region_center for the sampled cell p; edges are the indices of
\* the cells of `region.iter().step_by(sample_rate * 5)` that are edge cells
MinDistToEdge(region, edges, p) ==
    LET dist(k) == Abs(p[1] - region[k][1]) + Abs(p[2] - region[k][2])
    IN  IF edges = {} THEN UsizeMax
        ELSE dist(CHOOSE k \in edges : \A o \in edges : dist(k) <= dist(o))

\* the sampling loop of region_center: << max_dist_to_edge, best_pos >> after
\* it.  `min_dist > max_dist_to_edge` is strict, so the loop ends with the
\* first sampled cell of the greatest min_dist, or as it began when every
\* min_dist is 0.
BestSample(region, sample_rate) ==
    LET cells   == Cells(region)
        edges   == { k \in 1 .. Len(region) :
                       (k - 1) % (sample_rate * 5) = 0 /\ IsEdge(cells, region[k]) }
        samples == { i \in 1 .. Len(region) : (i - 1) % sample_rate = 0 }
        md      == [ i \in samples |-> MinDistToEdge(region, edges, region[i]) ]
        top     == CHOOSE i \in samples : \A o \in samples : md[i] > md[o] \/ (md[i] = md[o] /\ i <= o)
    IN  IF md[top] > 0 THEN << md[top], region[top] >> ELSE << 0, << 0, 0 >> >>

\* `region.iter().map(..).sum()` of coordinate c over the cells lo .. hi
RECURSIVE SumCoord(_, _, _, _)
SumCoord(region, c, lo, hi) ==
    IF lo > hi THEN 0
    ELSE IF lo = hi THEN region[lo][c]
    ELSE SumCoord(region, c, lo, (lo + hi) \div 2) + SumCoord(region, c, (lo + hi) \div 2 + 1, hi)

region_center(region) ==
    LET sample_rate == Max(Len(region) \div 100, 1)
        best == BestSample(region, sample_rate)
    IN  IF best[1] = 0
        THEN << SumCoord(region, 1, 1, Len(region)) \div Len(region),
                SumCoord(region, 2, 1, Len(region)) \div Len(region) >>
        ELSE best[2]

\* fault: is_too_close that looks at the label placed last only
IsTooCloseToLast(t, x, y, placed) ==
    /\ placed # << >>
    /\ 36 * Dist2(x, y, placed[Len(placed)].x, placed[Len(placed)].y)
         < Max(3 * Cols(t), 4 * Rows(t)) * Max(3 * Cols(t), 4 * Rows(t))

\* is_too_close: min_distance is 80 * max(cols / 160, rows / 120), so
\* dist < min_distance is 6 * dist < max(3 * cols, 4 * rows)
IsTooClose(t, x, y, placed) ==
    \E k \in DOMAIN placed :
        36 * Dist2(x, y, placed[k].x, placed[k].y) < Max(3 * Cols(t), 4 * Rows(t)) * Max(3 * Cols(t), 4 * Rows(t))

\* `sort_by(|a, b| b.len().cmp(&a.len()))`: stable, longest first
RECURSIVE InsertRegion(_, _)
InsertRegion(sorted, r) ==
    IF sorted = << >> THEN << r >>
    ELSE IF Len(r) > Len(sorted[Len(sorted)])
         THEN Append(InsertRegion(SubSeq(sorted, 1, Len(sorted) - 1), r), sorted[Len(sorted)])
         ELSE Append(sorted, r)

RECURSIVE SortRegions(_, _, _)
SortRegions(regions, i, sorted) ==
    IF i > Len(regions) THEN sorted
    ELSE SortRegions(regions, i + 1, InsertRegion(sorted, regions[i]))

\* one of the four region loops: labels the first `take` regions of more than
\* `size` cells, from the one at position i of the sorted list on
RECURSIVE LabelRegions(_, _, _, _, _, _, _)
LabelRegions(t, sorted, i, take, size, feature_type, placed) ==
    IF i > Len(sorted) \/ i > take THEN placed
    ELSE LET c == region_center(sorted[i])
         IN  IF Len(sorted[i]) > size /\ ~IsTooClose(t, c[1], c[2], placed)
             THEN LabelRegions(t, sorted, i + 1, take, size, feature_type,
                      Append(placed, [ x |-> c[1], y |-> c[2], feature_type |-> feature_type ]))
             ELSE LabelRegions(t, sorted, i + 1, take, size, feature_type, placed)

LabelBiomes(t, biomes, take, size, feature_type, placed) ==
    LabelRegions(t, SortRegions(find_regions(t, biomes), 1, << >>), 1, take, size, feature_type, placed)

\* the label position of a river: the first of len/3, len/2, len*2/3 that is
\* not too close to a label, 0 when there is none
RiverLabelPos(t, river, placed) ==
    LET free(pos) == ~IsTooClose(t, river[pos + 1][1], river[pos + 1][2], placed)
        p1 == Len(river) \div 3
        p2 == Len(river) \div 2
        p3 == (Len(river) * 2) \div 3
    IN  IF free(p1) THEN p1 + 1 ELSE IF free(p2) THEN p2 + 1 ELSE IF free(p3) THEN p3 + 1 ELSE 0

RECURSIVE LabelRivers(_, _, _, _, _)
LabelRivers(t, rs, i, added, placed) ==
    IF i > Len(rs) THEN placed
    ELSE IF Len(rs[i]) > 30 /\ added < 3 /\ RiverLabelPos(t, rs[i], placed) > 0
    THEN LET p == rs[i][RiverLabelPos(t, rs[i], placed)]
         IN  LabelRivers(t, rs, i + 1, added + 1,
                         Append(placed, [ x |-> p[1], y |-> p[2], feature_type |-> "river" ]))
    ELSE LabelRivers(t, rs, i + 1, added, placed)

\* fault: generate_labels that takes four ocean regions
generate_labels_four_oceans(t, rs) ==
    LET oceans    == LabelBiomes(t, { "Ocean", "DeepOcean" }, 4, 200, "ocean", << >>)
        mountains == LabelBiomes(t, { "Mountains", "SnowPeaks" }, 4, 40, "mountains", oceans)
        forests   == LabelBiomes(t, { "Forest" }, 3, 100, "forest", mountains)
        swamps    == LabelBiomes(t, { "Swamp" }, 2, 60, "swamp", forests)
    IN  LabelRivers(t, rs, 1, 0, swamps)

generate_labels(t, rs) ==
    LET oceans    == LabelBiomes(t, { "Ocean", "DeepOcean" }, 3, 200, "ocean", << >>)
        mountains == LabelBiomes(t, { "Mountains", "SnowPeaks" }, 4, 40, "mountains", oceans)
        forests   == LabelBiomes(t, { "Forest" }, 3, 100, "forest", mountains)
        swamps    == LabelBiomes(t, { "Swamp" }, 2, 60, "swamp", forests)
    IN  LabelRivers(t, rs, 1, 0, swamps)

----------------------------------------------------------------------------
(* generate: the pipeline *)

NoRoadLocals == [ phase |-> "none" ]
NoSearch == [ active |-> FALSE ]
NoMap == [ returned |-> FALSE ]
NoProbe == [ fn |-> "none" ]

SettingsChoices ==
    { [ river_density |-> rd, city_density |-> cd, land_percentage |-> 400 ] :
        rd \in { 0, 40 }, cd \in { 0, 200 } }

\* vec![vec![TerrainPoint { 0.0, 0.0, 0.0, Plains }; width]; height]
BlankTerrain(w, h) ==
    [ y \in 0 .. h - 1 |-> [ x \in 0 .. w - 1 |->
        [ elevation |-> 0, moisture |-> 0, temperature |-> 0, biome |-> "Plains" ] ] ]

\* a generator built by new_with_settings with one of the given settings,
\* entering generate(width, height)
InitWith(choices) ==
    /\ seed \in 0 .. MaxSeed
    /\ settings \in choices
    /\ build \in { "debug", "release" }
    /\ width \in 0 .. MaxDim
    /\ height \in 0 .. MaxDim
    /\ pc = "start"
    /\ terrain = BlankTerrain(width, height)
    /\ synth = << >>
    /\ rivers = << >>
    /\ num_rivers = 0
    /\ last_river = NoRiver
    /\ cities = << >>
    /\ cityp = NoCityLocals
    /\ roads = << >>
    /\ bridges = << >>
    /\ roadp = NoRoadLocals
    /\ search = NoSearch
    /\ labels = << >>
    /\ map = NoMap
    /\ twin = << >>
    /\ probe = NoProbe

Init == InitWith(SettingsChoices)

\* the arguments of generate and the generator's own fields, and the probe:
\* no stage writes them
inputs == << seed, settings, build, width, height, probe >>

\* the synthesis loop of generate
Synthesize ==
    /\ pc = "start"
    /\ terrain' = SynthesizedTerrain(seed, settings.land_percentage, width, height)
    /\ synth' = terrain'
    /\ pc' = "rivers"
    /\ UNCHANGED << inputs, rivers, num_rivers, last_river, cities,
                    cityp, roads, bridges, roadp, search, labels, map, twin >>

\* generate_rivers up to the candidate loop
RiversBegin ==
    /\ pc = "rivers"
    /\ \E n \in NumRiversChoices(river_density(settings)) : num_rivers' = n
    /\ rivers' = << >>
    /\ pc' = "river_loop"
    /\ UNCHANGED << inputs, terrain, synth, last_river, cities, cityp, roads, bridges, roadp,
                    search, labels, map, twin >>

\* one candidate river: the start search and the walk
RiverCandidate ==
    /\ pc = "river_loop"
    /\ num_rivers > 0
    /\ IF Rows(terrain) = 0 \/ Cols(terrain) = 0
       THEN /\ pc' = "panic"
            /\ UNCHANGED << rivers, num_rivers, last_river >>
       ELSE /\ pc' = pc
            /\ num_rivers' = num_rivers - 1
            /\ \E y \in DOMAIN terrain : \E x \in DOMAIN terrain[y] :
                 IF IsRiverStart(terrain, x, y)
                 THEN /\ last_river' = Candidate(terrain, x, y)
                      /\ rivers' = IF last_river'.committed THEN Append(rivers, last_river'.cells) ELSE rivers
                 ELSE \* every one of the 200 draws missed: `continue`
                      /\ last_river' = NoRiver
                      /\ rivers' = rivers
    /\ UNCHANGED << inputs, terrain, synth, cities, cityp, roads, bridges, roadp,
                    search, labels, map, twin >>

RiversReturn ==
    /\ pc = "river_loop"
    /\ num_rivers = 0
    /\ pc' = "erode"
    /\ UNCHANGED << inputs, terrain, synth, rivers, num_rivers, last_river,
                    cities, cityp, roads, bridges, roadp, search, labels, map, twin >>

\* "Apply river erosion and widen rivers"
Erode ==
    /\ pc = "erode"
    /\ terrain' = ErodeAll(terrain, rivers, 1)
    /\ pc' = "cities"
    /\ UNCHANGED << inputs, synth, rivers, num_rivers, last_river,
                    cities, cityp, roads, bridges, roadp, search, labels, map, twin >>

\* generate_cities up to the placement loop: the early returns, the scan,
\* the tier counts and the populations
CitiesBegin ==
    /\ pc = "cities"
    /\ cities' = << >>
    /\ IF city_density(settings) < 10
       THEN pc' = "roads" /\ cityp' = NoCityLocals
       ELSE IF CityScanOutcome(width, height, build) # "ok"
       THEN pc' = CityScanOutcome(width, height, build) /\ cityp' = NoCityLocals
       ELSE LET valid  == ValidPositions(terrain, width, height)
                total  == width * height
                nmajor == NumMajorCities(city_density(settings), Len(valid), total)
                nmed   == NumMediumCities(city_density(settings), Len(valid), total)
                ntown  == NumTowns(city_density(settings), Len(valid), total)
            IN  IF valid = << >>
                THEN pc' = "roads" /\ cityp' = NoCityLocals
                ELSE /\ pc' = "place"
                     /\ \E mediums \in [ 1 .. nmed -> MediumPopulations ] :
                        \E towns \in [ 1 .. ntown -> TownPopulations ] :
                          cityp' = [ valid_positions |-> valid,
                                     populations |-> Populations(nmajor, mediums, towns),
                                     num_major_cities |-> nmajor,
                                     num_medium_cities |-> nmed,
                                     idx |-> 1, attempts |-> 0,
                                     placed_positions |-> << >> ]
    /\ UNCHANGED << inputs, terrain, synth, rivers, num_rivers, last_river,
                    roads, bridges, roadp, search, labels, map, twin >>

\* one iteration of `while attempts < 150 && !valid_positions.is_empty()`
CityAttempt ==
    /\ pc = "place"
    /\ cityp.idx <= Len(cityp.populations)
    /\ cityp.attempts < 150
    /\ \E pos_idx \in 1 .. Len(cityp.valid_positions) :
         LET x == cityp.valid_positions[pos_idx][1]
             y == cityp.valid_positions[pos_idx][2]
             is_major  == cityp.idx - 1 < cityp.num_major_cities
             is_medium == cityp.idx - 1 < cityp.num_major_cities + cityp.num_medium_cities
             Retry == /\ cityp' = [ cityp EXCEPT !.attempts = @ + 1 ]
                      /\ cities' = cities
         IN  \E suitable \in SuitableOutcomes(Cell(terrain, x, y).biome, is_major) :
               IF ~suitable THEN Retry
               ELSE \E o \in SpacingOutcomes(x, y, cityp.placed_positions, 1,
                                            TierMinDist(is_major, is_medium),
                                            ~is_major /\ ~is_medium, cityp.num_major_cities) :
                      IF o[2] /\ cityp.attempts < 100 THEN Retry
                      ELSE IF ~o[1]
                      THEN /\ cities' = Append(cities, [ x |-> x, y |-> y,
                                           population |-> cityp.populations[cityp.idx] ])
                           /\ cityp' = [ cityp EXCEPT !.placed_positions = Append(@, << x, y >>),
                                                      !.idx = @ + 1, !.attempts = 0 ]
                      ELSE Retry
    /\ UNCHANGED << inputs, pc, terrain, synth, rivers,
                    num_rivers, last_river, roads, bridges, roadp, search, labels, map, twin >>

\* the attempts of a settlement are used up: it is not placed
CityGiveUp ==
    /\ pc = "place"
    /\ cityp.idx <= Len(cityp.populations)
    /\ cityp.attempts >= 150
    /\ cityp' = [ cityp EXCEPT !.idx = @ + 1, !.attempts = 0 ]
    /\ UNCHANGED << inputs, pc, terrain, synth, rivers,
                    num_rivers, last_river, cities, roads, bridges, roadp, search, labels, map, twin >>

CitiesReturn ==
    /\ pc = "place"
    /\ cityp.idx > Len(cityp.populations)
    /\ pc' = "roads"
    /\ cityp' = NoCityLocals
    /\ UNCHANGED << inputs, terrain, synth, rivers,
                    num_rivers, last_river, cities, roads, bridges, roadp, search, labels, map, twin >>

\* generate_roads up to the highway loop
RoadsBegin ==
    /\ pc = "roads"
    /\ roads' = << >>
    /\ bridges' = << >>
    /\ IF cities = << >>
       THEN pc' = "labels" /\ roadp' = NoRoadLocals
       ELSE /\ pc' = "highways"
            /\ roadp' = [ phase |-> "highways",
                          river_points |-> RiverPoints(rivers),
                          connected_cities |-> [ i \in 1 .. Len(cities) |-> FALSE ],
                          road_network |-> {},
                          mst_edges |-> MstEdges(cities),
                          k |-> 1, is_road_junction |-> FALSE, twin_target |-> << >> ]
    /\ UNCHANGED << inputs, terrain, synth, rivers, num_rivers, last_river, cities, cityp, search,
                    labels, map, twin >>

\* one iteration of `while let Some(..) = heap.pop()` of find_path or
\* find_partial_path; an exhausted heap ends the search with no path.  The
\* heap yields a cheapest entry; which of several equally cheap ones is the
\* binary heap's business.
SearchStep ==
    /\ pc = "search"
    /\ ~search.done
    /\ IF search.heap = {}
       THEN search' = [ search EXCEPT !.done = TRUE, !.result = << >> ]
       ELSE \E e \in search.heap :
              /\ \A o \in search.heap : e[1] <= o[1]
              /\ LET cost     == e[1]
                     position == e[2]
                     popped   == [ search EXCEPT !.heap = @ \ { e }, !.steps = @ + 1 ]
                     moves    == OpenMoves(terrain, position)
                     Return   == \E wig \in WiggleChoices(terrain, PathTo(search.came_from, position)) :
                                   search' = [ popped EXCEPT !.done = TRUE,
                                       !.result = smooth_path(terrain, PathTo(search.came_from, position), wig) ]
                 IN  IF search.partial
                        /\ (popped.steps > 50
                            \/ Cell(terrain, position[1], position[2]).biome
                                 \in { "Mountains", "SnowPeaks", "Ocean", "DeepOcean" })
                     THEN Return
                     ELSE IF position = search.goal THEN Return
                     ELSE IF cost > search.dist[position] THEN search' = popped
                     ELSE IF search.partial
                     THEN search' = Relax(popped, position, moves,
                              [ k \in moves |-> NextCostPartial(terrain, cost, position,
                                                    Neighbors8[k][1], Neighbors8[k][2]) ])
                     ELSE LET straights == { k \in moves : DrawsStraight(search.came_from, position,
                                                              Neighbors8[k][1], Neighbors8[k][2]) }
                          IN  \E jitter \in [ moves -> JitterDraws ] :
                              \E straight \in [ straights -> StraightDraws ] :
                                search' = Relax(popped, position, moves,
                                    [ k \in moves |-> NextCost(terrain, search.came_from, cost, position,
                                          Neighbors8[k][1], Neighbors8[k][2], search.goal, jitter[k],
                                          IF k \in straights THEN straight[k] ELSE 0) ])
    /\ UNCHANGED << inputs, pc, terrain, synth, rivers, num_rivers, last_river, cities, cityp, roads,
                    bridges, roadp, labels, map, twin >>

\* a road of the given name pattern and type along the path just found
NewRoad(path, name, road_type) ==
    [ path |-> path, name |-> name, road_type |-> road_type,
      bridges |-> BridgesOf(terrain, roadp.river_points, path) ]

\* the next MST edge: find_path between its two cities
HighwayStart ==
    /\ pc = "highways"
    /\ roadp.k <= Len(roadp.mst_edges)
    /\ LET i == roadp.mst_edges[roadp.k][1]
           j == roadp.mst_edges[roadp.k][2]
       IN  search' = NewSearch(FALSE, cities[i].x, cities[i].y, cities[j].x, cities[j].y)
    /\ pc' = "search"
    /\ UNCHANGED << inputs, terrain, synth, rivers, num_rivers, last_river, cities, cityp, roads,
                    bridges, roadp, labels, map, twin >>

\* the body of the highway loop after find_path returned
HighwayBuilt ==
    /\ pc = "search"
    /\ search.done
    /\ roadp.phase = "highways"
    /\ LET i == roadp.mst_edges[roadp.k][1]
           j == roadp.mst_edges[roadp.k][2]
           path == search.result
           road == NewRoad(path, "Highway", "highway")
       IN  IF path # << >>
           THEN /\ roads' = Append(roads, road)
                /\ bridges' = bridges \o road.bridges
                /\ roadp' = [ roadp EXCEPT !.k = @ + 1,
                                !.connected_cities = [ @ EXCEPT ![i] = TRUE, ![j] = TRUE ],
                                !.road_network = @ \cup Cells(path) ]
           ELSE /\ roadp' = [ roadp EXCEPT !.k = @ + 1 ]
                /\ UNCHANGED << roads, bridges >>
    /\ search' = NoSearch
    /\ pc' = "highways"
    /\ UNCHANGED << inputs, terrain, synth, rivers, num_rivers, last_river, cities, cityp, labels, map, twin >>

HighwaysDone ==
    /\ pc = "highways"
    /\ roadp.k > Len(roadp.mst_edges)
    /\ pc' = "connect"
    /\ roadp' = [ roadp EXCEPT !.phase = "connect", !.k = 1 ]
    /\ UNCHANGED << inputs, terrain, synth, rivers, num_rivers, last_river, cities, cityp, roads,
                    bridges, search, labels, map, twin >>

\* `if !connected_cities[i]` fails: the city already has a road
ConnectSkip ==
    /\ pc = "connect"
    /\ roadp.k <= Len(cities)
    /\ roadp.connected_cities[roadp.k]
    /\ roadp' = [ roadp EXCEPT !.k = @ + 1 ]
    /\ UNCHANGED << inputs, pc, terrain, synth, rivers, num_rivers, last_river, cities, cityp, roads,
                    bridges, search, labels, map, twin >>

\* an unconnected city: best_connection and find_path to it
ConnectStart ==
    /\ pc = "connect"
    /\ roadp.k <= Len(cities)
    /\ ~roadp.connected_cities[roadp.k]
    /\ \E target \in BestConnections(cities, roadp.k, roadp.road_network, roadp.connected_cities) :
         /\ search' = NewSearch(FALSE, cities[roadp.k].x, cities[roadp.k].y, target[1], target[2])
         /\ \E other \in BestConnections(cities, roadp.k, roadp.road_network, roadp.connected_cities) :
              roadp' = [ roadp EXCEPT !.is_road_junction = target[3],
                                      !.twin_target = << other[1], other[2] >> ]
    /\ pc' = "search"
    /\ UNCHANGED << inputs, terrain, synth, rivers, num_rivers, last_river, cities, cityp, roads,
                    bridges, labels, map, twin >>

ConnectBuilt ==
    /\ pc = "search"
    /\ search.done
    /\ roadp.phase = "connect"
    /\ LET i == roadp.k
           path == search.result
           road_type == IF cities[i].population > 100000 THEN "road" ELSE "trail"
           road_name == IF roadp.is_road_junction THEN "Branch"
                        ELSE IF road_type = "trail" THEN "Trail" ELSE "Road"
           road == NewRoad(path, road_name, road_type)
       IN  IF path # << >>
           THEN /\ roads' = Append(roads, road)
                /\ bridges' = bridges \o road.bridges
                /\ twin' = Append(twin, [ road |-> Len(roads) + 1, target |-> roadp.twin_target ])
                /\ roadp' = [ roadp EXCEPT !.k = @ + 1,
                                !.connected_cities = [ @ EXCEPT ![i] = TRUE ],
                                !.road_network = @ \cup Cells(path) ]
           ELSE /\ roadp' = [ roadp EXCEPT !.k = @ + 1 ]
                /\ UNCHANGED << roads, bridges, twin >>
    /\ search' = NoSearch
    /\ pc' = "connect"
    /\ UNCHANGED << inputs, terrain, synth, rivers, num_rivers, last_river, cities, cityp, labels, map >>

ConnectDone ==
    /\ pc = "connect"
    /\ roadp.k > Len(cities)
    /\ pc' = "trails"
    /\ roadp' = [ roadp EXCEPT !.phase = "trails", !.k = 1 ]
    /\ UNCHANGED << inputs, terrain, synth, rivers, num_rivers, last_river, cities, cityp, roads,
                    bridges, search, labels, map, twin >>

\* `gen_bool(0.3)` fails, or the target drawn is off the map
TrailSkip ==
    /\ pc = "trails"
    /\ roadp.k <= Len(cities)
    /\ roadp' = [ roadp EXCEPT !.k = @ + 1 ]
    /\ UNCHANGED << inputs, pc, terrain, synth, rivers, num_rivers, last_river, cities, cityp, roads,
                    bridges, search, labels, map, twin >>

\* a trail into the wilderness: find_partial_path to a target on the map
TrailStart ==
    /\ pc = "trails"
    /\ roadp.k <= Len(cities)
    /\ \E target \in TrailTargets(terrain, cities[roadp.k].x, cities[roadp.k].y) :
         search' = NewSearch(TRUE, cities[roadp.k].x, cities[roadp.k].y, target[1], target[2])
    /\ pc' = "search"
    /\ UNCHANGED << inputs, terrain, synth, rivers, num_rivers, last_river, cities, cityp, roads,
                    bridges, roadp, labels, map, twin >>

TrailBuilt ==
    /\ pc = "search"
    /\ search.done
    /\ roadp.phase = "trails"
    /\ LET path == search.result
           road == NewRoad(path, "Old Trail", "trail")
       IN  IF Len(path) > 5
           THEN /\ roads' = Append(roads, road)
                /\ bridges' = bridges \o road.bridges
           ELSE UNCHANGED << roads, bridges >>
    /\ roadp' = [ roadp EXCEPT !.k = @ + 1 ]
    /\ search' = NoSearch
    /\ pc' = "trails"
    /\ UNCHANGED << inputs, terrain, synth, rivers, num_rivers, last_river, cities, cityp, labels, map, twin >>

RoadsReturn ==
    /\ pc = "trails"
    /\ roadp.k > Len(cities)
    /\ pc' = "labels"
    /\ roadp' = NoRoadLocals
    /\ UNCHANGED << inputs, terrain, synth, rivers, num_rivers, last_river, cities, cityp, roads,
                    bridges, search, labels, map, twin >>

\* generate_labels: `terrain[0]` is read before anything else
Labels ==
    /\ pc = "labels"
    /\ IF Rows(terrain) = 0
       THEN pc' = "panic" /\ labels' = labels
       ELSE pc' = "return" /\ labels' = generate_labels(terrain, rivers)
    /\ UNCHANGED << inputs, terrain, synth, rivers, num_rivers, last_river, cities, cityp, roads,
                    bridges, roadp, search, map, twin >>

\* the TerrainMap literal at the end of generate
Return ==
    /\ pc = "return"
    /\ map' = [ returned |-> TRUE, width |-> width, height |-> height, terrain |-> terrain,
                labels |-> labels, rivers |-> rivers, cities |-> cities, roads |-> roads,
                bridges |-> bridges ]
    /\ pc' = "done"
    /\ UNCHANGED << inputs, terrain, synth, rivers, num_rivers, last_river, cities, cityp, roads,
                    bridges, roadp, search, labels, twin >>

Next ==
    \/ Synthesize \/ RiversBegin \/ RiverCandidate \/ RiversReturn \/ Erode
    \/ CitiesBegin \/ CityAttempt \/ CityGiveUp \/ CitiesReturn
    \/ RoadsBegin \/ SearchStep \/ HighwayStart \/ HighwayBuilt \/ HighwaysDone
    \/ ConnectSkip \/ ConnectStart \/ ConnectBuilt \/ ConnectDone
    \/ TrailSkip \/ TrailStart \/ TrailBuilt \/ RoadsReturn
    \/ Labels \/ Return

Spec == Init /\ [][Next]_vars

----------------------------------------------------------------------------
(* The river stage on long one-row maps *)

SlopeWidth == 207

RampSeeds == { 3, 4 }

InitRivers ==
    /\ seed \in RampSeeds
    /\ settings = [ river_density |-> 20, city_density |-> 0, land_percentage |-> 400 ]
    /\ build \in { "debug", "release" }
    /\ width \in { Len(RampProfile), SlopeWidth }
    /\ height = 1
    /\ pc = "start"
    /\ terrain = BlankTerrain(width, height)
    /\ synth = << >>
    /\ rivers = << >>
    /\ num_rivers = 0
    /\ last_river = NoRiver
    /\ cities = << >>
    /\ cityp = NoCityLocals
    /\ roads = << >>
    /\ bridges = << >>
    /\ roadp = NoRoadLocals
    /\ search = NoSearch
    /\ labels = << >>
    /\ map = NoMap
    /\ twin = << >>
    /\ probe = NoProbe

NextRivers == Synthesize \/ RiversBegin \/ RiverCandidate \/ RiversReturn \/ Erode

SpecRivers == InitRivers /\ [][NextRivers]_vars

----------------------------------------------------------------------------
(* The road stage of a crowded islet: generate_roads entered with the nine
   settlements city_density 0.65 gives a 6 x 6 map of the islet field (two
   medium cities and seven towns), the first eight on the plain and the hill,
   the ninth on the beach between them. *)

TwinCell(i, pattern) ==
    IF i = 9 THEN << 2, 2 >>
    ELSE IF pattern = "alternate" THEN (IF i % 2 = 1 THEN << 3, 2 >> ELSE << 2, 3 >>)
    ELSE IF i < 8 THEN << 3, 2 >> ELSE << 2, 3 >>

TwinCities(pattern, medium, town) ==
    [ i \in 1 .. 9 |-> [ x |-> TwinCell(i, pattern)[1], y |-> TwinCell(i, pattern)[2],
                         population |-> IF i <= 2 THEN medium ELSE town ] ]

InitTwin ==
    /\ seed = 1
    /\ settings = [ river_density |-> 0, city_density |-> 650, land_percentage |-> 400 ]
    /\ build \in { "debug", "release" }
    /\ width = 6
    /\ height = 6
    /\ pc = "roads"
    /\ terrain = SynthesizedTerrain(seed, settings.land_percentage, width, height)
    /\ synth = terrain
    /\ rivers = << >>
    /\ num_rivers = 0
    /\ last_river = NoRiver
    /\ \E pattern \in { "alternate", "last" } :
       \E medium \in MediumPopulations : \E town \in TownPopulations :
         cities = TwinCities(pattern, medium, town)
    /\ cityp = NoCityLocals
    /\ roads = << >>
    /\ bridges = << >>
    /\ roadp = NoRoadLocals
    /\ search = NoSearch
    /\ labels = << >>
    /\ map = NoMap
    /\ twin = << >>
    /\ probe = NoProbe

NextTwin ==
    \/ RoadsBegin \/ SearchStep \/ HighwayStart \/ HighwayBuilt \/ HighwaysDone
    \/ ConnectSkip \/ ConnectStart \/ ConnectBuilt \/ ConnectDone
    \/ TrailSkip \/ TrailStart \/ TrailBuilt \/ RoadsReturn
    \/ Labels \/ Return

SpecTwin == InitTwin /\ [][NextTwin]_vars

----------------------------------------------------------------------------
(* generate with land_percentage 0.0 *)

SeaSettings ==
    { [ river_density |-> rd, city_density |-> cd, land_percentage |-> 0 ] :
        rd \in { 0, 40 }, cd \in { 0, 300 } }

InitSea == InitWith(SeaSettings)

SpecSea == InitSea /\ [][Next]_vars

----------------------------------------------------------------------------
(* generate_cities: the tier counts and populations applied on their own to
   maps of any amount of land, and the placement on the islet maps *)

\* "Scale city counts" and "Generate city populations" of generate_cities for
\* probe.nvalid valid positions on a width x height map, after the two
\* early returns; the mediums draw m1, m2, m1, .. and the towns t1, t2, t1, ..
TierCounts ==
    /\ pc = "tiers"
    /\ LET total  == width * height
           early  == city_density(settings) < 10 \/ probe.nvalid = 0
           nmajor == IF early THEN 0 ELSE NumMajorCities(city_density(settings), probe.nvalid, total)
           nmed   == IF early THEN 0 ELSE NumMediumCities(city_density(settings), probe.nvalid, total)
           ntown  == IF early THEN 0 ELSE NumTowns(city_density(settings), probe.nvalid, total)
       IN  \E m1 \in MediumPopulations, m2 \in MediumPopulations :
           \E t1 \in TownPopulations, t2 \in TownPopulations :
             probe' = [ fn |-> "tier_counts", nvalid |-> probe.nvalid,
                        num_major_cities |-> nmajor, num_medium_cities |-> nmed,
                        num_towns |-> ntown,
                        populations |-> Populations(nmajor,
                            [ i \in 1 .. nmed |-> IF i % 2 = 1 THEN m1 ELSE m2 ],
                            [ i \in 1 .. ntown |-> IF i % 2 = 1 THEN t1 ELSE t2 ]) ]
    /\ pc' = "tiers_done"
    /\ UNCHANGED << seed, settings, build, width, height, terrain, synth, rivers, num_rivers,
                    last_river, cities, cityp, roads, bridges, roadp, search, labels, map, twin >>

InitCities ==
    /\ seed = 1
    /\ build \in { "debug", "release" }
    /\ rivers = << >>
    /\ num_rivers = 0
    /\ last_river = NoRiver
    /\ cities = << >>
    /\ cityp = NoCityLocals
    /\ roads = << >>
    /\ bridges = << >>
    /\ roadp = NoRoadLocals
    /\ search = NoSearch
    /\ labels = << >>
    /\ map = NoMap
    /\ twin = << >>
    /\ \/ /\ pc = "tiers"
          /\ settings \in { [ river_density |-> 0, city_density |-> cd, land_percentage |-> 400 ] :
                              cd \in { 0, 9, 10, 49, 50, 99, 100, 500, 1000 } }
          /\ \E size \in { << 6, 6 >>, << 40, 30 >> } : width = size[1] /\ height = size[2]
          /\ \E n \in { 0, 1, 3, ((width - 4) * (height - 4)) \div 2, (width - 4) * (height - 4) } :
                probe = [ fn |-> "tier_counts", nvalid |-> n ]
          /\ terrain = << >>
          /\ synth = << >>
       \/ /\ pc = "cities"
          /\ settings = [ river_density |-> 0, city_density |-> 200, land_percentage |-> 400 ]
          /\ width \in 5 .. MaxDim
          /\ height \in 5 .. MaxDim
          /\ probe = NoProbe
          /\ terrain = SynthesizedTerrain(seed, settings.land_percentage, width, height)
          /\ synth = terrain

NextCities == TierCounts \/ CitiesBegin \/ CityAttempt \/ CityGiveUp \/ CitiesReturn

SpecCities == InitCities /\ [][NextCities]_vars

----------------------------------------------------------------------------
(* determine_biome applied on its own to values at and around its thresholds *)

Classify ==
    /\ pc = "classify"
    /\ probe' = [ probe EXCEPT !.biome =
                    determine_biome(probe.elevation, probe.moisture, probe.temperature) ]
    /\ pc' = "classified"
    /\ UNCHANGED << seed, settings, build, width, height, terrain, synth, rivers, num_rivers,
                    last_river, cities, cityp, roads, bridges, roadp, search, labels, map, twin >>

InitBiome ==
    /\ seed = 1
    /\ settings = [ river_density |-> 0, city_density |-> 0, land_percentage |-> 400 ]
    /\ build \in { "debug", "release" }
    /\ width = 1
    /\ height = 1
    /\ terrain = << >>
    /\ synth = << >>
    /\ rivers = << >>
    /\ num_rivers = 0
    /\ last_river = NoRiver
    /\ cities = << >>
    /\ cityp = NoCityLocals
    /\ roads = << >>
    /\ bridges = << >>
    /\ roadp = NoRoadLocals
    /\ search = NoSearch
    /\ labels = << >>
    /\ map = NoMap
    /\ twin = << >>
    /\ pc = "classify"
    /\ \E e \in { 0 - Unit, 0 - 4001, 0 - 4000, 0 - 1501, 0 - 1500, 0 - 501, 0 - 500, 0 - 1, 0,
                  499, 500, 1499, 1500, 2499, 2500, 4999, 5000, 7499, 7500, Unit } :
       \E m \in { 0, 2499, 2500, 2999, 3000, 5000, 5001, 5500, 5501, 8000, 8001, 8500, 8501, Unit } :
       \E t \in { 0, 4999, 5000, 6000, 6001, 7000, 7001, Unit } :
            probe = [ fn |-> "determine_biome", elevation |-> e, moisture |-> m,
                      temperature |-> t, biome |-> "none" ]

SpecBiome == InitBiome /\ [][Classify]_vars

----------------------------------------------------------------------------
(* The road stage at the river mouth: generate_roads entered on a 7 x 13 map
   of the river mouth field with its one river, and the two towns
   city_density 0.15 gives it on the two beaches: both placed, or the second
   one given up *)

InitBridges ==
    /\ seed = 5
    /\ settings = [ river_density |-> 20, city_density |-> 150, land_percentage |-> 400 ]
    /\ build \in { "debug", "release" }
    /\ width = 7
    /\ height = 13
    /\ pc = "roads"
    /\ synth = SynthesizedTerrain(seed, settings.land_percentage, width, height)
    /\ last_river = Candidate(synth, 3, 0)
    /\ rivers = << last_river.cells >>
    /\ num_rivers = 0
    /\ terrain = ErodeAll(synth, rivers, 1)
    /\ \E first \in { << 2, 10 >>, << 4, 10 >> } : \E second \in { << 2, 10 >>, << 4, 10 >> } :
       \E p1 \in TownPopulations : \E p2 \in TownPopulations : \E placed \in 1 .. 2 :
         cities = SubSeq(<< [ x |-> first[1], y |-> first[2], population |-> p1 ],
                            [ x |-> second[1], y |-> second[2], population |-> p2 ] >>, 1, placed)
    /\ cityp = NoCityLocals
    /\ roads = << >>
    /\ bridges = << >>
    /\ roadp = NoRoadLocals
    /\ search = NoSearch
    /\ labels = << >>
    /\ map = NoMap
    /\ twin = << >>
    /\ probe = NoProbe

SpecBridges == InitBridges /\ [][NextTwin]_vars

----------------------------------------------------------------------------
(* "Step 1" of generate_roads applied on its own to settlements spread over a
   map wide enough for distances beyond 80 *)

\* settlement i of n stands on site ((a * i + b) mod 7) of seven sites, some
\* of them more than 80 apart, some equally far from a third
InitKruskal ==
    /\ seed = 1
    /\ settings = DefaultSettings
    /\ build \in { "debug", "release" }
    /\ width = 240
    /\ height = 240
    /\ terrain = << >>
    /\ synth = << >>
    /\ rivers = << >>
    /\ num_rivers = 0
    /\ last_river = NoRiver
    /\ cities = << >>
    /\ cityp = NoCityLocals
    /\ roads = << >>
    /\ bridges = << >>
    /\ roadp = NoRoadLocals
    /\ search = NoSearch
    /\ labels = << >>
    /\ map = NoMap
    /\ twin = << >>
    /\ pc = "mst"
    /\ \E n \in 0 .. 10 : \E a \in 0 .. 6 : \E b \in 0 .. 6 :
         LET sites == << << 0, 0 >>, << 30, 0 >>, << 0, 40 >>, << 30, 40 >>,
                         << 100, 0 >>, << 100, 70 >>, << 200, 200 >> >>
         IN  probe = [ fn |-> "mst_edges",
                       cities |-> [ i \in 1 .. n |->
                                      [ x |-> sites[((a * i + b) % 7) + 1][1],
                                        y |-> sites[((a * i + b) % 7) + 1][2],
                                        population |-> 5000 ] ],
                       mst_edges |-> << >> ]

BuildMst ==
    /\ pc = "mst"
    /\ probe' = [ probe EXCEPT !.mst_edges = MstEdges(probe.cities) ]
    /\ pc' = "mst_done"
    /\ UNCHANGED << seed, settings, build, width, height, terrain, synth, rivers, num_rivers,
                    last_river, cities, cityp, roads, bridges, roadp, search, labels, map, twin >>

SpecKruskal == InitKruskal /\ [][BuildMst]_vars

----------------------------------------------------------------------------
(* Properties of generate *)

\* a grid of h rows of w cells
GridShape(t, w, h) ==
    /\ DOMAIN t = 0 .. h - 1
    /\ \A y \in DOMAIN t : DOMAIN t[y] = 0 .. w - 1

\* C1: for width >= 1 and height >= 1 the terrain has exactly height rows of
\* width cells at every stage, and the returned map carries the requested
\* width and height and a terrain of that shape.
C1_Shape ==
    (width >= 1 /\ height >= 1) =>
        /\ GridShape(terrain, width, height)
        /\ map.returned => /\ map.width = width
                           /\ map.height = height
                           /\ GridShape(map.terrain, width, height)

\* a non-square map with a river has been returned
C1_Witness ==
    /\ map.returned
    /\ width >= 1 /\ height >= 1 /\ width # height
    /\ map.rivers # << >>

\* C2 (as stated): two generators of the same seed, settings and size return
\* identical maps, so every road this generator builds in phase 2 ends at the
\* cell the second generator connects the same settlement to.
C2_SameRoads ==
    \A k \in DOMAIN twin :
        LET path == roads[twin[k].road].path
        IN  path[Len(path)] = twin[k].target

\* C3: with river_density 0 no river is committed, no cell is a River and no
\* elevation differs from the synthesized one.
C3_NoRivers ==
    settings.river_density = 0 =>
        /\ rivers = << >>
        /\ \A y \in DOMAIN terrain : \A x \in DOMAIN terrain[y] : terrain[y][x].biome # "River"
        /\ synth # << >> => terrain = synth
        /\ map.returned => map.rivers = << >> /\ map.terrain = synth

\* a map returned with river_density 0 on which a walk would have been committed
C3_Witness ==
    /\ settings.river_density = 0
    /\ map.returned
    /\ \E y \in DOMAIN synth : \E x \in DOMAIN synth[y] :
         IsRiverStart(synth, x, y) /\ Candidate(synth, x, y).committed

\* C4: with city_density 0 no city is placed.
C4_NoCities ==
    settings.city_density = 0 =>
        /\ cities = << >>
        /\ map.returned => map.cities = << >>

\* a map returned with city_density 0 that has cells a city could stand on
C4_Witness ==
    /\ settings.city_density = 0
    /\ map.returned
    /\ ValidPositions(map.terrain, width, height) # << >>

\* the candidate walked last is among the committed rivers
LastCommitted == \E k \in DOMAIN rivers : rivers[k] = last_river.cells

\* the commit rule with the two lengths as parameters: a walk that reached the
\* sea with at least sea_min cells, or one that stopped at a pool with at
\* least pool_min cells and a terminal elevation below 0.2
CommitRule(sea_min, pool_min) ==
    LET cells == last_river.cells
        last  == cells[Len(cells)]
    IN  \/ last_river.ending = "sea" /\ Len(cells) >= sea_min
        \/ /\ last_river.ending = "pool"
           /\ Len(cells) >= pool_min
           /\ Cell(synth, last[1], last[2]).elevation < 2000

\* C5 (as stated): a candidate is committed exactly when it reaches the sea
\* with at least 10 cells or stops at a pool with at least 8 cells and a
\* terminal elevation below 0.2.
C5_AsStated ==
    (pc = "river_loop" /\ last_river.cells # << >>) => (LastCommitted <=> CommitRule(10, 8))

\* C5 (amended): a candidate is committed exactly when it reaches the sea
\* with at least 11 cells or stops at a pool with at least 9 cells and a
\* terminal elevation below 0.2; every other candidate is discarded.
C5_Amended ==
    (pc = "river_loop" /\ last_river.cells # << >>) => (LastCommitted <=> CommitRule(11, 9))

\* a walk of exactly 11 cells to the sea has been committed
C5_Witness ==
    /\ pc = "river_loop"
    /\ last_river.ending = "sea"
    /\ Len(last_river.cells) = 11
    /\ LastCommitted

\* C6: no city stands on DeepOcean, Ocean, Shore, Lake or River.
C6_CitiesOnLand ==
    \A i \in DOMAIN cities :
        /\ InBounds(terrain, cities[i].x, cities[i].y)
        /\ Cell(terrain, cities[i].x, cities[i].y).biome
             \notin { "DeepOcean", "Ocean", "Shore", "Lake", "River" }

\* a returned map with a city that has a Shore or Ocean cell next to it
C6_Witness ==
    /\ map.returned
    /\ \E i \in DOMAIN map.cities : \E k \in DOMAIN Neighbors8 :
         LET nx == map.cities[i].x + Neighbors8[k][1]
             ny == map.cities[i].y + Neighbors8[k][2]
         IN  InBounds(terrain, nx, ny) /\ Cell(terrain, nx, ny).biome \in { "Shore", "Ocean" }

\* a town's population is below every medium and major city's
IsTown(c) == c.population < 50000

\* the least spacing a settlement of this population is placed with
MinSpacing(c) == IF IsTown(c) THEN 40 ELSE 60

\* C7 (as stated): every city is at least its minimum spacing away from the
\* cities placed before it, but for a town beside a larger city, which is
\* never closer than 6 cells.
C7_Spacing ==
    \A j \in DOMAIN cities : \A i \in 1 .. j - 1 :
        LET d2 == Dist2(cities[i].x, cities[i].y, cities[j].x, cities[j].y)
        IN  \/ d2 >= MinSpacing(cities[j]) * MinSpacing(cities[j])
            \/ IsTown(cities[j]) /\ ~IsTown(cities[i]) /\ d2 >= 6 * 6

\* C8: every cell of every road path lies in the grid and is not Ocean,
\* DeepOcean, Lake or Shore.
C8_RoadsOnLand ==
    \A r \in DOMAIN roads : \A k \in DOMAIN roads[r].path :
        LET c == roads[r].path[k]
        IN  /\ InBounds(terrain, c[1], c[2])
            /\ Cell(terrain, c[1], c[2]).biome \notin { "Ocean", "DeepOcean", "Lake", "Shore" }

\* a returned map with a road of at least three cells next to the Shore
C8_Witness ==
    /\ map.returned
    /\ \E r \in DOMAIN map.roads :
         /\ Len(map.roads[r].path) >= 3
         /\ \E k \in DOMAIN map.roads[r].path : \E n \in DOMAIN Neighbors8 :
              LET nx == map.roads[r].path[k][1] + Neighbors8[n][1]
                  ny == map.roads[r].path[k][2] + Neighbors8[n][2]
              IN  InBounds(terrain, nx, ny) /\ Cell(terrain, nx, ny).biome = "Shore"

\* C9 (as stated): generate with width 0 or height 0 does not panic, whatever
\* the settings.
C9_ZeroNoPanic ==
    (width = 0 \/ height = 0) => pc \notin { "panic", "hang" }

\* C10: generate(2, 2) does not panic, places no city and builds no road, and
\* returns 2 rows of 2 cells.
C10_TwoByTwo ==
    (width = 2 /\ height = 2) =>
        /\ pc \notin { "panic", "hang" }
        /\ cities = << >>
        /\ roads = << >>
        /\ map.returned => /\ GridShape(map.terrain, 2, 2)
                           /\ map.cities = << >>
                           /\ map.roads = << >>

\* a 2 x 2 map returned with rivers and cities both asked for
C10_Witness ==
    /\ width = 2 /\ height = 2
    /\ settings.river_density > 0 /\ settings.city_density > 0
    /\ map.returned

\* C11 (as stated): with land_percentage 0.0 no cell of the generated grid
\* has a land biome, and the map has no river, no city and no road.
C11_AllWater ==
    settings.land_percentage = 0 =>
        /\ synth # << >> =>
              \A y \in DOMAIN terrain : \A x \in DOMAIN terrain[y] :
                  terrain[y][x].biome \notin
                      { "Plains", "Forest", "Hills", "Mountains", "SnowPeaks", "Beach", "Desert" }
        /\ rivers = << >>
        /\ cities = << >>
        /\ roads = << >>

\* C12 (as stated): on a returned map with at least two settlements every
\* settlement is the first or the last cell of at least one road.
C12_Connected ==
    (map.returned /\ Len(map.cities) >= 2) =>
        \A i \in DOMAIN map.cities :
            \E r \in DOMAIN map.roads :
                LET path == map.roads[r].path
                    at   == << map.cities[i].x, map.cities[i].y >>
                IN  path[1] = at \/ path[Len(path)] = at

\* C13 (as stated): for width >= 1 and height >= 1 and every settings value
\* generate neither panics nor fails to complete.
C13_NoPanic ==
    (width >= 1 /\ height >= 1) => pc \notin { "panic", "hang" }

\* C14: every cell of the terrain, at every stage and in the returned map,
\* has elevation in [-1, 1], moisture in [0, 1] and temperature in [0, 1];
\* synthesis gives a cell above sea level an elevation in [0.01, 1] and any
\* other cell one in [-1, 0]; erosion leaves the sign of every elevation as
\* synthesized.
C14_Ranges ==
    synth # << >> =>
        \A y \in DOMAIN terrain : \A x \in DOMAIN terrain[y] :
            LET now  == terrain[y][x]
                then == synth[y][x]
                land == BaseElevation(seed, x, y, width, height) > SeaLevel(settings.land_percentage)
            IN  /\ now.elevation >= 0 - Unit /\ now.elevation <= Unit
                /\ now.moisture >= 0 /\ now.moisture <= Unit
                /\ now.temperature >= 0 /\ now.temperature <= Unit
                /\ land => then.elevation >= 100 /\ then.elevation <= Unit
                /\ ~land => then.elevation >= 0 - Unit /\ then.elevation <= 0
                /\ (then.elevation > 0) = (now.elevation > 0)
                /\ (then.elevation < 0) = (now.elevation < 0)
                /\ map.returned => map.terrain[y][x] = now

\* a returned map on which erosion lowered a cell that is not a river cell
C14_Witness ==
    /\ map.returned
    /\ \E y \in DOMAIN terrain : \E x \in DOMAIN terrain[y] :
         /\ terrain[y][x].biome # "River"
         /\ terrain[y][x].elevation # synth[y][x].elevation

\* C15 (as stated): in the returned map every cell that is not a River has
\* the biome the classifier gives for the elevation, moisture and
\* temperature stored in that cell.
C15_Classified ==
    map.returned =>
        \A y \in DOMAIN map.terrain : \A x \in DOMAIN map.terrain[y] :
            LET c == map.terrain[y][x]
            IN  c.biome # "River" =>
                    c.biome = determine_biome(c.elevation, c.moisture, c.temperature)

\* C16 (as stated): no settlement is placed within 40 cells of an already
\* placed one while its column or its row differs from that one's by less
\* than 3, whatever the number of attempts used.
C16_NoAligned ==
    \A j \in DOMAIN cities : \A i \in 1 .. j - 1 :
        LET dx == cities[j].x - cities[i].x
            dy == cities[j].y - cities[i].y
        IN  ~((Abs(dx) < 3 \/ Abs(dy) < 3) /\ dx * dx + dy * dy < 40 * 40)

\* C17: at most 10 major, 25 medium and 70 small populations are generated,
\* so never more than 105 cities; no major one below city_density 0.1 and no
\* medium one below 0.05.
C17_Caps ==
    /\ probe.fn = "tier_counts" /\ pc = "tiers_done" =>
          /\ probe.num_major_cities <= 10
          /\ probe.num_medium_cities <= 25
          /\ probe.num_towns <= 70
          /\ Len(probe.populations)
               = probe.num_major_cities + probe.num_medium_cities + probe.num_towns
          /\ settings.city_density < 100 => probe.num_major_cities = 0
          /\ settings.city_density < 50 => probe.num_medium_cities = 0
    /\ pc = "place" =>
          /\ cityp.num_major_cities <= 10
          /\ cityp.num_medium_cities <= 25
          /\ Len(cityp.populations) <= 105
    /\ Len(cities) <= 105

\* the three caps are all reached
C17_Witness ==
    /\ pc = "tiers_done"
    /\ probe.num_major_cities = 10
    /\ probe.num_medium_cities = 25
    /\ probe.num_towns = 70
    /\ Len(probe.populations) = 105

\* a populations vector of nmajor majors and nmed mediums that obeys the tier rules
TierRules(populations, nmajor, nmed) ==
    \A k \in DOMAIN populations :
        IF k <= nmajor THEN populations[k] = 500000 \div k
        ELSE IF k <= nmajor + nmed THEN populations[k] >= 50000 /\ populations[k] < 150000
        ELSE populations[k] >= 5000 /\ populations[k] < 30000

\* C18: the major of rank r has population floor(500000 / r), every medium
\* one a value in [50000, 150000) and every small one a value in
\* [5000, 30000); a settlement that is placed takes the population of its own
\* rank, and one that fails placement uses up its rank and places nothing.
C18_Populations ==
    /\ [](/\ pc = "tiers_done" =>
                TierRules(probe.populations, probe.num_major_cities, probe.num_medium_cities)
          /\ pc = "place" =>
                TierRules(cityp.populations, cityp.num_major_cities, cityp.num_medium_cities))
    /\ [][(pc = "place" /\ pc' = "place") =>
            /\ cityp'.populations = cityp.populations
            /\ \/ cityp'.idx = cityp.idx /\ cities' = cities
               \/ /\ cityp'.idx = cityp.idx + 1
                  /\ \/ cities' = cities /\ cityp.attempts >= 150
                     \/ /\ Len(cities') = Len(cities) + 1
                        /\ SubSeq(cities', 1, Len(cities)) = cities
                        /\ cities'[Len(cities')].population = cityp.populations[cityp.idx]]_vars

\* the first town failed placement and the second was placed with its own,
\* different population
C18_Witness ==
    /\ pc = "place"
    /\ Len(cityp.populations) = 2
    /\ cityp.idx = 3
    /\ Len(cities) = 1
    /\ cities[1].population = cityp.populations[2]
    /\ cityp.populations[1] # cityp.populations[2]

\* C19: determine_biome answers for every input, from elevation alone outside
\* the two lowland bands (DeepOcean below -0.4, Ocean below -0.15, Shore
\* below -0.05, Beach below 0.05, Hills in [0.25, 0.5), Mountains in
\* [0.5, 0.75), SnowPeaks from 0.75 up); in [0.05, 0.25) the answer is one of
\* Swamp, Forest, Desert, Plains; it is never River or Lake.
C19_DecisionTable ==
    pc = "classified" =>
        LET e == probe.elevation
            b == probe.biome
        IN  /\ b \in Biomes \ { "River", "Lake" }
            /\ e < 0 - 4000 => b = "DeepOcean"
            /\ (e >= 0 - 4000 /\ e < 0 - 1500) => b = "Ocean"
            /\ (e >= 0 - 1500 /\ e < 0 - 500) => b = "Shore"
            /\ (e >= 0 - 500 /\ e < 500) => b = "Beach"
            /\ (e >= 500 /\ e < 2500) => b \in { "Swamp", "Forest", "Desert", "Plains" }
            /\ (e >= 2500 /\ e < 5000) => b = "Hills"
            /\ (e >= 5000 /\ e < 7500) => b = "Mountains"
            /\ e >= 7500 => b = "SnowPeaks"
            /\ (e < 500 \/ e >= 2500) =>
                    \A m \in { 0, 2499, 5001, 8501, Unit }, t \in { 0, 4999, 7001, Unit } :
                        determine_biome(e, m, t) = b

\* an elevation at the lower edge of the Hills band with swamp-like moisture
\* has been classified
C19_Witness ==
    /\ pc = "classified"
    /\ probe.elevation = 2500
    /\ probe.moisture = 8501
    /\ probe.temperature = 0
    /\ probe.biome = "Hills"

\* the bridge lists of the roads rs from road i on, one after the other
RECURSIVE BridgeListsFrom(_, _)
BridgeListsFrom(rs, i) ==
    IF i > Len(rs) THEN << >> ELSE rs[i].bridges \o BridgeListsFrom(rs, i + 1)

\* the positions of a path that lie on a river path or on a River cell, in path order
RiverCrossings(path) ==
    LET on_river(k) == \/ \E r \in DOMAIN rivers : \E i \in DOMAIN rivers[r] : rivers[r][i] = path[k]
                       \/ terrain[path[k][2]][path[k][1]].biome = "River"
        Upto(n) == { k \in 1 .. n : on_river(k) }
    IN  [ j \in 1 .. Cardinality(Upto(Len(path))) |->
            CHOOSE k \in Upto(Len(path)) : Cardinality(Upto(k)) = j ]

\* C20: the bridges of a road are, in path order, exactly the cells of its path
\* that belong to a river path or have biome River, and the bridges list of the
\* map is the roads' bridge lists one after the other in road order.
C20_Bridges ==
    /\ \A r \in DOMAIN roads :
         LET at == RiverCrossings(roads[r].path)
         IN  /\ Len(roads[r].bridges) = Len(at)
             /\ \A j \in DOMAIN at :
                  << roads[r].bridges[j].x, roads[r].bridges[j].y >> = roads[r].path[at[j]]
    /\ bridges = BridgeListsFrom(roads, 1)
    /\ map.returned => map.bridges = BridgeListsFrom(map.roads, 1)

\* the map is returned with a highway that crosses the river on a bridge and
\* a second road that has a bridge of its own
C20_Witness ==
    /\ map.returned
    /\ Len(map.roads) >= 2
    /\ map.roads[1].road_type = "highway"
    /\ Len(map.roads[1].path) > Len(map.roads[1].bridges)
    /\ map.roads[1].bridges # << >>
    /\ map.roads[2].bridges # << >>
    /\ Len(map.bridges) = Len(map.roads[1].bridges) + Len(map.roads[2].bridges)

\* the nodes joined to a node of `set` by the edges, after k more rounds
RECURSIVE Joined(_, _, _)
Joined(edges, set, k) ==
    IF k = 0 THEN set
    ELSE Joined(edges,
                set \cup { e[2] : e \in { f \in edges : f[1] \in set } }
                    \cup { e[1] : e \in { f \in edges : f[2] \in set } },
                k - 1)

\* C21: the highway edges join settlements among the first min(8, n) that are
\* at most 80 apart, come in non-decreasing length, close no cycle, number at
\* most 7, join whatever the edges of length <= 80 join, and are minimal: the
\* ends of an edge left out are joined by selected edges no longer than it.
C21_Kruskal ==
    pc = "mst_done" =>
        LET cs     == probe.cities
            m      == IF Len(cs) < 8 THEN Len(cs) ELSE 8
            mst    == probe.mst_edges
            d2(e)  == (cs[e[1]].x - cs[e[2]].x) * (cs[e[1]].x - cs[e[2]].x)
                      + (cs[e[1]].y - cs[e[2]].y) * (cs[e[1]].y - cs[e[2]].y)
            short  == { e \in (1 .. m) \X (1 .. m) : e[1] < e[2] /\ d2(e) <= 80 * 80 }
            chosen == { mst[k] : k \in DOMAIN mst }
            before(k) == { mst[i] : i \in 1 .. k - 1 }
        IN  /\ chosen \subseteq short
            /\ Len(mst) <= 7
            /\ \A k \in DOMAIN mst :
                 /\ k > 1 => d2(mst[k - 1]) <= d2(mst[k])
                 /\ mst[k][2] \notin Joined(before(k), { mst[k][1] }, 8)
            /\ \A e \in short :
                 e[2] \in Joined({ f \in chosen : d2(f) <= d2(e) }, { e[1] }, 8)

\* ten settlements of which the first eight form two groups: six edges are
\* selected, and one pair of the first eight stays unjoined for being more
\* than 80 apart
C21_Witness ==
    /\ pc = "mst_done"
    /\ Len(probe.cities) = 10
    /\ Len(probe.mst_edges) = 6
    /\ \E i \in 1 .. 8 : \E j \in 1 .. 8 :
         /\ j \notin Joined({ probe.mst_edges[k] : k \in DOMAIN probe.mst_edges }, { i }, 8)

-----------------------------------------------------------------------------
(* find_regions, region_center and generate_labels applied on their own *)

\* a map of w x h cells laid out in rectangles << x0, y0, bw, bh, biome >> on
\* plains (the first rectangle holding a cell decides it), with the river
\* cells of rs marked as the erosion loop of generate marks them; every cell
\* has an elevation and a moisture that determine_biome maps to its biome
LabelTerrain(w, h, blocks, rs) ==
    LET holds(k, x, y) == /\ x >= blocks[k][1] /\ x < blocks[k][1] + blocks[k][3]
                          /\ y >= blocks[k][2] /\ y < blocks[k][2] + blocks[k][4]
        wet == UNION { Cells(rs[i]) : i \in DOMAIN rs }
        biome(x, y) ==
            IF \E k \in DOMAIN blocks : holds(k, x, y)
            THEN blocks[CHOOSE k \in DOMAIN blocks :
                            holds(k, x, y) /\ \A o \in 1 .. k - 1 : ~holds(o, x, y)][5]
            ELSE "Plains"
        point(b) ==
            [ elevation   |-> CASE b = "Ocean" -> 0 - 3000 [] b = "Mountains" -> 6000
                                [] b = "Swamp" -> 1000 [] OTHER -> 2000,
              moisture    |-> CASE b = "Swamp" -> 9000 [] b = "Forest" -> 6000 [] OTHER -> 4000,
              temperature |-> 4000,
              biome       |-> b ]
    IN  [ y \in 0 .. h - 1 |-> [ x \in 0 .. w - 1 |->
            IF << x, y >> \in wet
            THEN [ point(biome(x, y)) EXCEPT !.biome = "River" ]
            ELSE point(biome(x, y)) ] ]

\* generate_labels is entered with a terrain of 42 x 30 cells: a block of
\* mountains or swamp in the middle, four cells of forest, and either blocks
\* of biome b in the four corners (of 49, 63, 110 or 210 cells, with a small
\* patch of the same biome that touches the middle block at a corner, and
\* possibly a cell missing from the first block) or none; the rivers run
\* along the borders into the corners, one of them of 30 cells only
InitLabels ==
    /\ seed = 1
    /\ settings = DefaultSettings
    /\ build = "release"
    /\ width = 42
    /\ height = 30
    /\ synth = << >>
    /\ num_rivers = 0
    /\ last_river = NoRiver
    /\ cities = << >>
    /\ cityp = NoCityLocals
    /\ roads = << >>
    /\ bridges = << >>
    /\ roadp = NoRoadLocals
    /\ search = NoSearch
    /\ labels = << >>
    /\ map = NoMap
    /\ twin = << >>
    /\ probe = [ fn |-> "find_regions" ]
    /\ pc = "regions"
    /\ \E c \in 0 .. 4 : \E b \in { "Ocean", "Mountains", "Forest", "Swamp" } :
       \E notch \in BOOLEAN : \E nr \in 0 .. 5 :
         LET bb     == IF c % 2 = 1 THEN "Mountains" ELSE "Swamp"
             sizes  == << << 7, 7 >>, << 9, 7 >>, << 11, 10 >>, << 15, 14 >> >>
             small  == << << 3, 3 >>, << 5, 2 >>, << 11, 1 >>, << 4, 3 >> >>
             corner(x0, y0) == << x0, y0, sizes[c][1], sizes[c][2], b >>
             blocks == IF c = 0 THEN << << 16, 11, 9, 7, bb >>, << 20, 25, 2, 2, "Forest" >> >>
                       ELSE (IF notch THEN << << 2, 6, 1, 1, "Plains" >> >> ELSE << >>)
                            \o << << 16, 11, 9, 7, bb >>, << 20, 25, 2, 2, "Forest" >>,
                                  corner(0, 0), corner(42 - sizes[c][1], 0),
                                  corner(0, 30 - sizes[c][2]),
                                  corner(42 - sizes[c][1], 30 - sizes[c][2]),
                                  << 25, 18, small[c][1], small[c][2], b >> >>
             bend(x0, y0, dx) == [ i \in 1 .. 31 |-> IF i <= 11 THEN << x0, y0 + (11 - i) * (IF y0 = 0 THEN 1 ELSE 0 - 1) >>
                                                     ELSE << x0 + dx * (i - 11), y0 >> ]
             all    == << bend(0, 0, 1), [ i \in 1 .. 30 |-> << 5 + i, 20 >> ],
                          bend(41, 0, 0 - 1), bend(0, 29, 1), bend(41, 29, 0 - 1) >>
         IN  /\ c = 0 => b = "Ocean" /\ ~notch
             /\ c > 0 => nr \in { 0, 5 }
             /\ notch => nr = 0
             /\ rivers = SubSeq(all, 1, nr)
             /\ terrain = LabelTerrain(42, 30, blocks, rivers)

\* the four calls of find_regions in generate_labels, and region_center of
\* every region they return
FindRegions ==
    /\ pc = "regions"
    /\ pc' = "labels"
    /\ LET biomes  == [ f \in { "ocean", "mountains", "forest", "swamp" } |->
                         CASE f = "ocean" -> { "Ocean", "DeepOcean" }
                           [] f = "mountains" -> { "Mountains", "SnowPeaks" }
                           [] f = "forest" -> { "Forest" }
                           [] OTHER -> { "Swamp" } ]
           regions == [ f \in DOMAIN biomes |-> find_regions(terrain, biomes[f]) ]
       IN  probe' = [ fn |-> "find_regions", biomes |-> biomes, regions |-> regions,
                      centers |-> [ f \in DOMAIN biomes |->
                                      [ i \in DOMAIN regions[f] |-> region_center(regions[f][i]) ] ] ]
    /\ UNCHANGED << seed, settings, build, width, height, terrain, synth, rivers, num_rivers,
                    last_river, cities, cityp, roads, bridges, roadp, search, labels, map, twin >>

\* the labels stage keeps the regions found: `inputs` holds probe
SpecLabels == InitLabels /\ [][FindRegions \/ Labels \/ Return]_vars

\* C22: labels respect the caps and the size floors: at most 3 ocean labels
\* (regions of more than 200 cells), 4 mountain labels (more than 40), 3
\* forest labels (more than 100), 2 swamp labels (more than 60) and 3 river
\* labels (rivers of more than 30 cells), each region label standing at the
\* centre of a region that fewer than cap regions of its category exceed in
\* size, and a map has at most 15 labels
C22_LabelCaps ==
    LET cap   == [ f \in { "ocean", "mountains", "forest", "swamp" } |->
                     CASE f = "mountains" -> 4 [] f = "swamp" -> 2 [] OTHER -> 3 ]
        floor == [ f \in { "ocean", "mountains", "forest", "swamp" } |->
                     CASE f = "ocean" -> 200 [] f = "mountains" -> 40
                       [] f = "forest" -> 100 [] OTHER -> 60 ]
        of(f) == { k \in DOMAIN labels : labels[k].feature_type = f }
    IN  pc \in { "return", "done" } /\ probe.fn = "find_regions" =>
            /\ \A f \in DOMAIN cap :
                 /\ Cardinality(of(f)) <= cap[f]
                 /\ \A k \in of(f) : \E i \in DOMAIN probe.regions[f] :
                      /\ Len(probe.regions[f][i]) > floor[f]
                      /\ probe.centers[f][i] = << labels[k].x, labels[k].y >>
                      /\ Cardinality({ j \in DOMAIN probe.regions[f] :
                                         Len(probe.regions[f][j]) > Len(probe.regions[f][i]) }) < cap[f]
            /\ Cardinality(of("river")) <= 3
            /\ \A k \in of("river") : \E i \in DOMAIN rivers :
                 /\ Len(rivers[i]) > 30
                 /\ << labels[k].x, labels[k].y >> \in Cells(rivers[i])
            /\ \A k \in DOMAIN labels :
                 labels[k].feature_type \in { "ocean", "mountains", "forest", "swamp", "river" }
            /\ Len(labels) <= 15
            /\ pc = "done" => map.labels = labels

\* C22 happens: a returned map with five mountain regions of more than 40
\* cells and four mountain labels
C22_Witness ==
    /\ pc = "done"
    /\ probe.fn = "find_regions"
    /\ Len(probe.regions["mountains"]) = 5
    /\ \A i \in 1 .. 5 : Len(probe.regions["mountains"][i]) > 40
    /\ Cardinality({ k \in DOMAIN map.labels : map.labels[k].feature_type = "mountains" }) = 4

\* C23: any two labels of the returned map are at a Euclidean distance of at
\* least 80 * max(width / 160, height / 120), that is 6 * distance is at
\* least max(3 * width, 4 * height)
C23_LabelSpacing ==
    map.returned =>
        \A k \in DOMAIN map.labels : \A l \in DOMAIN map.labels :
            k # l => 36 * Dist2(map.labels[k].x, map.labels[k].y, map.labels[l].x, map.labels[l].y)
                        >= Max(3 * map.width, 4 * map.height) * Max(3 * map.width, 4 * map.height)

\* C23 happens: a returned map with two labels or more, and a river of more
\* than 30 cells that has no label because each of its three positions is
\* closer than the minimum to a label, although fewer than three rivers are
\* labelled
C23_Witness ==
    /\ map.returned
    /\ Len(map.labels) >= 2
    /\ Cardinality({ k \in DOMAIN map.labels : map.labels[k].feature_type = "river" }) < 3
    /\ \E i \in DOMAIN map.rivers :
         /\ Len(map.rivers[i]) > 30
         /\ \A p \in { Len(map.rivers[i]) \div 3, Len(map.rivers[i]) \div 2, (Len(map.rivers[i]) * 2) \div 3 } :
              \E k \in DOMAIN map.labels :
                  /\ 36 * Dist2(map.rivers[i][p + 1][1], map.rivers[i][p + 1][2], map.labels[k].x, map.labels[k].y)
                       < Max(3 * map.width, 4 * map.height) * Max(3 * map.width, 4 * map.height)
                  /\ << map.labels[k].x, map.labels[k].y >> # map.rivers[i][p + 1]

\* the cells of a set that the frontier reaches through steps between
\* 8-neighbours, added to done
RECURSIVE Reached(_, _, _)
Reached(cells, done, frontier) ==
    LET around == UNION { { << s[1] + dx, s[2] + dy >> : dx \in { 0 - 1, 0, 1 }, dy \in { 0 - 1, 0, 1 } } :
                          s \in frontier }
        new    == (around \cap cells) \ done
    IN  IF new = {} THEN done ELSE Reached(cells, done \cup new, new)

\* C24: region_center returns a sampled cell of the greatest Manhattan
\* distance to the nearest sampled boundary cell, and the centroid (integer
\* means of x and of y) exactly when none of the sampled comparison cells is
\* a boundary cell
C24_RegionCenter ==
    pc = "labels" /\ probe.fn = "find_regions" =>
        \A f \in DOMAIN probe.regions : \A i \in DOMAIN probe.regions[f] :
            LET region   == probe.regions[f][i]
                rate     == Max(Len(region) \div 100, 1)
                sampled  == { k \in DOMAIN region : (k - 1) % rate = 0 }
                boundary == { region[k] : k \in { o \in DOMAIN region :
                                  (o - 1) % (rate * 5) = 0 /\ IsEdge(Cells(region), region[o]) } }
                far(p)   == CHOOSE d \in 0 .. 72 :
                                /\ \E e \in boundary : Abs(p[1] - e[1]) + Abs(p[2] - e[2]) = d
                                /\ \A e \in boundary : Abs(p[1] - e[1]) + Abs(p[2] - e[2]) >= d
                centroid == << SumCoord(region, 1, 1, Len(region)) \div Len(region),
                               SumCoord(region, 2, 1, Len(region)) \div Len(region) >>
            IN  IF boundary = {}
                THEN probe.centers[f][i] = centroid
                ELSE \E k \in sampled :
                        /\ probe.centers[f][i] = region[k]
                        /\ \A o \in sampled : far(region[o]) <= far(region[k])

\* C25: find_regions returns the 8-connected components of the matching
\* cells that have more than 10 cells: a region holds matching cells only,
\* each once, is connected and cannot be extended, no two regions share a
\* cell, and a matching cell outside every region belongs to a component of
\* 10 cells or fewer
C25_Components ==
    pc = "labels" /\ probe.fn = "find_regions" =>
        \A f \in DOMAIN probe.regions :
            LET regions  == probe.regions[f]
                matching == { << x, y >> \in (0 .. width - 1) \X (0 .. height - 1) :
                                Cell(terrain, x, y).biome \in probe.biomes[f] }
                returned == UNION { Cells(regions[i]) : i \in DOMAIN regions }
            IN  /\ \A i \in DOMAIN regions :
                     /\ Cells(regions[i]) \subseteq matching
                     /\ Cardinality(Cells(regions[i])) = Len(regions[i])
                     /\ Len(regions[i]) > 10
                     /\ Reached(matching, { regions[i][1] }, { regions[i][1] }) = Cells(regions[i])
                     /\ \A j \in DOMAIN regions : i # j => Cells(regions[i]) \cap Cells(regions[j]) = {}
                /\ \A c \in matching \ returned :
                     Cardinality(Reached(matching, { c }, { c })) <= 10

\* C25 happens: a region of more than 10 cells whose two parts touch at a
\* corner only is returned, and a component of four cells is not
C25_Witness ==
    /\ pc = "labels"
    /\ probe.fn = "find_regions"
    /\ \E f \in DOMAIN probe.regions : \E i \in DOMAIN probe.regions[f] :
         /\ { << 24, 17 >>, << 25, 18 >> } \subseteq Cells(probe.regions[f][i])
         /\ { << 25, 17 >>, << 24, 18 >> } \cap Cells(probe.regions[f][i]) = {}
    /\ Cell(terrain, 20, 25).biome = "Forest"
    /\ \A i \in DOMAIN probe.regions["forest"] : << 20, 25 >> \notin Cells(probe.regions["forest"][i])

\* TRUE when the walk `river` is a steepest descent on the terrain t: it
\* starts between 0.15 and 0.85, and each next cell is the first, in the
\* dy-then-dx scan, of the lowest unvisited neighbours below the current cell
SteepestDescent(t, river) ==
    LET e(p)    == Cell(t, p[1], p[2]).elevation
        rank(p, q) == (q[2] - p[2] + 1) * 3 + (q[1] - p[1] + 1)
        open(i) == { q \in { << river[i][1] + dx, river[i][2] + dy >> :
                               dx \in { 0 - 1, 0, 1 }, dy \in { 0 - 1, 0, 1 } } :
                       /\ InBounds(t, q[1], q[2])
                       /\ q \notin { river[j] : j \in 1 .. i }
                       /\ e(q) < e(river[i]) }
    IN  /\ e(river[1]) > 1500 /\ e(river[1]) < 8500
        /\ \A i \in 1 .. Len(river) - 1 :
             /\ river[i + 1] \in open(i)
             /\ \A q \in open(i) :
                  \/ e(q) > e(river[i + 1])
                  \/ e(q) = e(river[i + 1]) /\ rank(river[i], q) >= rank(river[i], river[i + 1])
             /\ e(river[i + 1]) < e(river[i])
        /\ \A i \in DOMAIN river : \A j \in DOMAIN river : i # j => river[i] # river[j]
        /\ Len(river) <= 200

\* C26: every river, and the walk of every candidate, is a steepest descent
\* on the terrain as synthesised: strictly decreasing elevations, no cell
\* twice, at most 200 cells
C26_SteepestDescent ==
    /\ \A i \in DOMAIN rivers : SteepestDescent(synth, rivers[i])
    /\ last_river.cells # << >> => SteepestDescent(synth, last_river.cells)

\* C26 happens: a river of more than 10 cells on the tilted plane that steps
\* to the lowest of two lower neighbours, not the first of the scan, and at
\* another cell to the first of three equally low ones
C26_Witness ==
    \E i \in DOMAIN rivers :
        LET river == rivers[i]
            e(p)  == Cell(synth, p[1], p[2]).elevation
        IN  /\ Len(river) > 10
            /\ \E k \in 1 .. Len(river) - 1 :
                 /\ river[k + 1] = << river[k][1] + 1, river[k][2] + 1 >>
                 /\ e(<< river[k][1], river[k][2] + 1 >>) > e(river[k + 1])
            /\ \E k \in 1 .. Len(river) - 1 :
                 /\ river[k + 1] = << river[k][1] - 1, river[k][2] + 1 >>
                 /\ e(<< river[k][1], river[k][2] + 1 >>) = e(river[k + 1])
                 /\ e(<< river[k][1] + 1, river[k][2] + 1 >>) = e(river[k + 1])

----------------------------------------------------------------------------
(* The river stage on the tilted plane *)

InitTilt ==
    /\ seed = 6
    /\ settings = [ river_density |-> 40, city_density |-> 0, land_percentage |-> 400 ]
    /\ build \in { "debug", "release" }
    /\ width = 3
    /\ height = 13
    /\ pc = "start"
    /\ terrain = BlankTerrain(width, height)
    /\ synth = << >>
    /\ rivers = << >>
    /\ num_rivers = 0
    /\ last_river = NoRiver
    /\ cities = << >>
    /\ cityp = NoCityLocals
    /\ roads = << >>
    /\ bridges = << >>
    /\ roadp = NoRoadLocals
    /\ search = NoSearch
    /\ labels = << >>
    /\ map = NoMap
    /\ twin = << >>
    /\ probe = NoProbe

SpecTilt == InitTilt /\ [][NextRivers]_vars

\* C30: smooth_path keeps the endpoints of the raw path, returns a path of
\* fewer than 3 cells unchanged, and returns no two equal consecutive cells:
\* whenever a search returns, its result relates in this way to the raw path
\* that leads to the cell popped last
C30_SmoothPath ==
    [][ (pc = "search" /\ ~search.done /\ search'.done /\ search.heap # {}) =>
          \E e \in search.heap :
              LET raw    == PathTo(search.came_from, e[2])
                  result == search'.result
              IN  /\ \A o \in search.heap : e[1] <= o[1]
                  /\ result # << >>
                  /\ result[1] = raw[1]
                  /\ result[Len(result)] = raw[Len(raw)]
                  /\ Len(raw) < 3 => result = raw
                  /\ \A k \in 1 .. Len(result) - 1 : result[k] # result[k + 1] ]_vars

\* C30 happens: find_path has returned the smoothed form of a raw path of
\* three cells or more that turns at some cell, where the first pass puts a
\* curve of nine points
C30_Witness ==
    /\ pc = "search"
    /\ search.done
    /\ ~search.partial
    /\ search.result # << >>
    /\ LET raw == PathTo(search.came_from, search.goal)
       IN  /\ Len(raw) >= 3
           /\ \E k \in 2 .. Len(raw) - 1 :
                NeedsSmoothing(raw[k][1] - raw[k - 1][1], raw[k][2] - raw[k - 1][2],
                               raw[k + 1][1] - raw[k][1], raw[k + 1][2] - raw[k][2])

----------------------------------------------------------------------------
(* The road stage across the strait: generate_roads entered on the 6 x 6 map
   of the islet field with one, two or three towns on the beach (2, 2), the
   plain (3, 2), the hill (2, 3) and the rock (4, 4), which the shoal and the
   sea cut off from the other three.  Every iteration of a search loop is
   taken in the end: the program runs on. *)

InitStrait ==
    /\ seed = 1
    /\ settings = [ river_density |-> 0, city_density |-> 650, land_percentage |-> 400 ]
    /\ build \in { "debug", "release" }
    /\ width = 6
    /\ height = 6
    /\ pc = "roads"
    /\ terrain = SynthesizedTerrain(seed, settings.land_percentage, width, height)
    /\ synth = terrain
    /\ rivers = << >>
    /\ num_rivers = 0
    /\ last_river = NoRiver
    /\ \E n \in 1 .. 3 :
       \E at \in [ 1 .. n -> { << 2, 2 >>, << 3, 2 >>, << 2, 3 >>, << 4, 4 >> } ] :
       \E town \in TownPopulations :
         cities = [ i \in 1 .. n |-> [ x |-> at[i][1], y |-> at[i][2], population |-> town ] ]
    /\ cityp = NoCityLocals
    /\ roads = << >>
    /\ bridges = << >>
    /\ roadp = NoRoadLocals
    /\ search = NoSearch
    /\ labels = << >>
    /\ map = NoMap
    /\ twin = << >>
    /\ probe = NoProbe

\* generate_roads and find_path run without waiting on anything, so a step
\* that can run does run: weak fairness of the steps of generate_roads, and
\* of SearchStep, which is enabled exactly while a query is open
\* (WF_vars(SearchStep) with its ENABLED written out)
\* steps 1 and 2 of generate_roads, the two that call find_path
NextStrait ==
    \/ RoadsBegin \/ SearchStep \/ HighwayStart \/ HighwayBuilt \/ HighwaysDone
    \/ ConnectSkip \/ ConnectStart \/ ConnectBuilt \/ ConnectDone

SpecStrait ==
    /\ InitStrait
    /\ [][NextStrait]_vars
    /\ WF_vars(RoadsBegin \/ HighwayStart \/ HighwayBuilt \/ HighwaysDone
                  \/ ConnectSkip \/ ConnectStart \/ ConnectBuilt \/ ConnectDone)
    /\ ([]<>~(pc = "search" /\ ~search.done) \/ []<><<SearchStep>>_vars)

\* C27: find_path terminates; it returns a path from the start to the goal
\* when the goal is reachable from the start over cells that are not Ocean,
\* DeepOcean, Lake or Shore, and the empty path otherwise; an empty path adds
\* no road; and each push records a cost below the one the cell had
C27_FindPath ==
    /\ [](pc = "search" /\ search.done /\ ~search.partial =>
            LET start == CHOOSE c \in DOMAIN search.dist : search.dist[c] = 0
                land  == { c \in (0 .. width - 1) \X (0 .. height - 1) :
                             ~Impassable(Cell(terrain, c[1], c[2]).biome) }
            IN  IF search.goal \in Reached(land, { start }, { start })
                THEN /\ search.result # << >>
                     /\ search.result[1] = start
                     /\ search.result[Len(search.result)] = search.goal
                ELSE search.result = << >>)
    /\ [][(pc = "search" /\ search.done /\ ~search.partial /\ search.result = << >>)
             => roads' = roads]_vars
    /\ [][(pc = "search" /\ ~search.done /\ ~search.partial /\ ~search'.done) =>
            /\ \A c \in DOMAIN search.dist :
                  c \in DOMAIN search'.dist /\ search'.dist[c] <= search.dist[c]
            /\ \A e \in search'.heap \ search.heap :
                  /\ search'.dist[e[2]] = e[1]
                  /\ e[2] \in DOMAIN search.dist => e[1] < search.dist[e[2]]]_vars
    /\ (pc = "search" /\ ~search.done /\ ~search.partial) ~> (pc = "search" /\ search.done)

\* C27 happens: a find_path query for a goal across the strait has ended with
\* the empty path after it expanded three cells or more, and a road of an
\* earlier query of two cells or more exists
C27_Witness ==
    /\ pc = "search"
    /\ search.done
    /\ ~search.partial
    /\ search.result = << >>
    /\ search.steps >= 3
    /\ \E r \in DOMAIN roads : Len(roads[r].path) >= 2

----------------------------------------------------------------------------
(* Settlements and the cells they stand on *)

\* C28 (as stated): no two cities of the returned map stand on the same
\* cell, whatever the sequence of placement attempts was.
C28_DistinctCells ==
    map.returned =>
        \A i \in DOMAIN map.cities : \A j \in DOMAIN map.cities :
            i # j => << map.cities[i].x, map.cities[i].y >> # << map.cities[j].x, map.cities[j].y >>

\* C29 (as stated): every road built to connect settlements (a highway of
\* step 2, or a road, trail or branch of step 3; the wilderness trails of
\* the last step are not among them) has a path of two cells or more that
\* starts on the cell of a settlement and ends on a different cell.
C29_NoSelfRoad ==
    \A k \in DOMAIN roads :
        roads[k].name # "Old Trail" =>
            LET path == roads[k].path
            IN  /\ Len(path) >= 2
                /\ \E i \in DOMAIN cities : path[1] = << cities[i].x, cities[i].y >>
                /\ path[Len(path)] # path[1]


====
